---- MODULE Spec2Model ----
(***************************************************************************)
(* Event capacity / waiting-list promotion and registration lifecycle of   *)
(* the event-management application.  One event is modelled.  Its          *)
(* Registration and WaitingList tables carry the unique (user+event)       *)
(* constraints of docs/schema-relations.md, so each table is keyed by the  *)
(* user and a registration's id is its user.  The operations register,     *)
(* confirmPayment, cancel, promoteNext, linkPayment, onPaymentStatusChange *)
(* and the capacity increase follow sections 4.1-4.4 of the specification; *)
(* every capacity-affecting operation runs under the event's row lock      *)
(* (section 5).                                                            *)
(***************************************************************************)
EXTENDS Integers, Sequences, FiniteSets, TLC

\* ---------------------------------------------------------------- bounds
NumUsers == 3
MaxCapacity == 2

Users == 1..NumUsers
NoUser == 0

\* ---------------------------------------------------------------- state
VARIABLES
    capacity,         \* Event.capacity (hard cap)
    requiresPayment,  \* whether the event requires payment
    registrations,    \* Registration table: user -> [status, payment]
    waitingList,      \* WaitingList of the event, ordered by createdAt
    lockHolder,       \* holder of the event's row lock, NoUser when free
    txn,              \* per user: the register transaction in flight
    arrivals,         \* users in flight or waiting, in the order they arrived
    lastResult        \* result object of the last operation

registrationVars == <<capacity, requiresPayment, registrations, waitingList,
                      lockHolder, txn, arrivals, lastResult>>

\* Cleanup sweeper and its cron endpoint.
VARIABLES
    now,              \* day on which the cleanup job runs (new Date())
    dbReachable,      \* whether the database answers at all
    tables,           \* the rows of the tables the sweeper deletes from
    run,              \* the performDatabaseCleanup call of this behaviour
    cron              \* the request GET /api/cron/cleanup answered, and its response

sweeperVars == <<now, dbReachable, tables, run, cron>>

\* Rate limiter of the email endpoint.
VARIABLES
    clock,            \* Date.now(), in milliseconds
    requests,         \* SimpleRateLimiter.requests: key -> times of allowed calls kept
    allowedLog,       \* per key, the times of all calls answered true
    lastAnswer        \* the last isAllowed call and its answer

limiterVars == <<clock, requests, allowedLog, lastAnswer>>

\* Kinde session and the auth endpoints.
VARIABLES
    session,          \* what getKindeServerSession() reports for the caller
    reply             \* the last auth call and what it returned

authVars == <<session, reply>>

\* Email library: sendEmail and sendBatchEmails.
VARIABLES
    batchConfig,      \* the BatchEmailConfig sendBatchEmails was called with
    loop,             \* sendBatchEmails' locals: position, i, results, successful, failed
    inFlight,         \* global indexes of the sendEmail calls started and not completed
    settled,          \* global index -> value its batch promise resolved to
    returned,         \* what sendBatchEmails returned
    sent,             \* the last single sendEmail call and its outcome
    post              \* the last POST to the email endpoint and its response

mailVars == <<batchConfig, loop, inFlight, settled, returned, sent, post>>

\* Pre-push checker script.
VARIABLES
    env,              \* the run's environment: flags, variables, what each command does
    checker           \* PrePushChecker.runAllChecks: position, results, allPassed, commands run

hookVars == <<env, checker>>

\* Browser side: SessionProvider and AuthGuard.
VARIABLES
    sessionData,      \* the SessionData state of SessionProvider
    fetches,          \* the fetchSession calls, in the order they were started
    rendered          \* the last AuthGuard render: session, props and output

clientVars == <<sessionData, fetches, rendered>>

vars == <<registrationVars, sweeperVars, limiterVars, authVars, mailVars, hookVars,
          clientVars>>

\* The subsystems share no state: while one runs the others are at rest.
NoRun == [phase |-> "idle"]
NoResponse == [status |-> 0]
NoAnswer == [key |-> "", allowed |-> FALSE]
NoSession == [authenticated |-> FALSE]
NoReply == [call |-> "none"]

SweeperIdle ==
    /\ now = 0
    /\ dbReachable = TRUE
    /\ tables = <<>>
    /\ run = NoRun
    /\ cron = NoResponse

LimiterIdle ==
    /\ clock = 0
    /\ requests = <<>>
    /\ allowedLog = <<>>
    /\ lastAnswer = NoAnswer

AuthIdle ==
    /\ session = NoSession
    /\ reply = NoReply

NoBatch == [emails |-> <<>>]
NoLoop == [at |-> "idle"]
NoReturn == [total |-> -1]
NoSend == [called |-> FALSE]
NoPost == [status |-> 0]

MailIdle ==
    /\ batchConfig = NoBatch
    /\ loop = NoLoop
    /\ inFlight = {}
    /\ settled = <<>>
    /\ returned = NoReturn
    /\ sent = NoSend
    /\ post = NoPost

NoEnv == [autoFix |-> FALSE]
NoChecker == [at |-> "idle"]

HookIdle ==
    /\ env = NoEnv
    /\ checker = NoChecker

NoSessionData == [isLoading |-> TRUE]
NoRender == [output |-> "none"]

ClientIdle ==
    /\ sessionData = NoSessionData
    /\ fetches = <<>>
    /\ rendered = NoRender

\* "NONE": the table has no row for the user.
RegistrationStatus == {"PENDING", "CONFIRMED", "CANCELLED"}
ActiveStatus == {"PENDING", "CONFIRMED"}
\* "NONE": the registration has no linked Payment.
PaymentStatus == {"PENDING", "CONFIRMED", "FAILED"}

NoRow == [status |-> "NONE", payment |-> "NONE"]

IdleTxn == [active |-> FALSE, slots |-> 0]

\* Result object of an operation, with the number of promoteNext invocations
\* the operation made and the number of waiting-list entries these passed
\* over because the registration could not be created.
ResultSkipping(op, outcome, calls, skipped) ==
    [op |-> op, outcome |-> outcome, promoteCalls |-> calls, skipped |-> skipped]

Result(op, outcome, calls) == ResultSkipping(op, outcome, calls, 0)

\* ------------------------------------------------------- capacity ledger
hasRow(regs, u) == regs[u].status # "NONE"

hasActiveRegistration(regs, u) == regs[u].status \in ActiveStatus

onWaitingList(wl, u) == \E i \in DOMAIN wl : wl[i] = u

countConfirmed(regs) ==
    Cardinality({u \in DOMAIN regs : regs[u].status = "CONFIRMED"})

\* A registration holds its slot from creation (PENDING or CONFIRMED) until
\* it is cancelled: register "decrements available slots" on both paths.
countActiveConfirmedOnly(regs) ==
    Cardinality({u \in DOMAIN regs : regs[u].status = "CONFIRMED"})
countActive(regs) ==
    Cardinality({u \in DOMAIN regs : regs[u].status \in ActiveStatus})

availableSlots(cap, regs) ==
    IF cap - countActive(regs) > 0 THEN cap - countActive(regs) ELSE 0

\* ------------------------------------------------ registration creation
initialStatus(pay) == IF pay THEN "PENDING" ELSE "CONFIRMED"

\* linkPayment: 1:1 between Registration and Payment; a registration that
\* already has a payment keeps it (PaymentAlreadyLinked), a linked payment
\* starts PENDING.
linkPayment(row) ==
    IF row.payment # "NONE" THEN row ELSE [row EXCEPT !.payment = "PENDING"]

\* The row register creates.  On the payment-required path the registration
\* is created PENDING and its Payment is linked to it (payment flow
\* Registration -> Payment); on the no-payment path it is CONFIRMED and has
\* no payment.
newRegistration(pay) ==
    IF pay
    THEN linkPayment([status |-> initialStatus(pay), payment |-> "NONE"])
    ELSE [status |-> initialStatus(pay), payment |-> "NONE"]

\* Creation fails on the unique (user+event) constraint of Registration.
canCreate(regs, u) == ~hasRow(regs, u)

\* ------------------------------------------------------ waiting list queue
\* promoteNext: pop the earliest entry, delete it, create the registration
\* without the is-it-full check; on a failed creation go on to the next
\* entry; no-op on an empty queue.
RECURSIVE promoteNext(_, _, _)
promoteNextStalling(regs, wl, pay) ==
    IF wl = <<>>
    THEN [regs |-> regs, wl |-> wl, promoted |-> NoUser, skipped |-> 0]
    ELSE IF canCreate(regs, Head(wl))
         THEN [regs |-> [regs EXCEPT ![Head(wl)] = newRegistration(pay)],
               wl |-> Tail(wl), promoted |-> Head(wl), skipped |-> 0]
         ELSE [regs |-> regs, wl |-> Tail(wl), promoted |-> NoUser, skipped |-> 1]
promoteNext(regs, wl, pay) ==
    IF wl = <<>>
    THEN [regs |-> regs, wl |-> wl, promoted |-> NoUser, skipped |-> 0]
    ELSE IF canCreate(regs, Head(wl))
         THEN [regs |-> [regs EXCEPT ![Head(wl)] = newRegistration(pay)],
               wl |-> Tail(wl), promoted |-> Head(wl), skipped |-> 0]
         ELSE LET rest == promoteNext(regs, Tail(wl), pay)
              IN [rest EXCEPT !.skipped = rest.skipped + 1]

\* promoteNext invoked n times (once per freed slot).
RECURSIVE promoteTimes(_, _, _, _)
promoteTimes(n, regs, wl, pay) ==
    IF n = 0
    THEN [regs |-> regs, wl |-> wl, promoted |-> <<>>, skipped |-> 0]
    ELSE LET one == promoteNext(regs, wl, pay)
             rest == promoteTimes(n - 1, one.regs, one.wl, pay)
         IN [regs |-> rest.regs, wl |-> rest.wl,
             promoted |-> IF one.promoted = NoUser
                          THEN rest.promoted
                          ELSE <<one.promoted>> \o rest.promoted,
             skipped |-> one.skipped + rest.skipped]

\* The users that are still in flight or waiting keep their arrival order.
stillQueued(arr, wl, tx) ==
    SelectSeq(arr, LAMBDA u : onWaitingList(wl, u) \/ tx[u].active)

\* ------------------------------------------------------------ row lock
\* Row-level lock scoped to the event's registration count.
lockFreeNoLock(holder) == TRUE
lockFree(holder) == holder = NoUser

\* ---------------------------------------------------------------- Init
Init ==
    /\ capacity \in 1..MaxCapacity
    /\ requiresPayment \in BOOLEAN
    /\ registrations = [u \in Users |-> NoRow]
    /\ waitingList = <<>>
    /\ lockHolder = NoUser
    /\ txn = [u \in Users |-> IdleTxn]
    /\ arrivals = <<>>
    /\ lastResult = Result("init", "ok", 0)
    /\ SweeperIdle
    /\ LimiterIdle
    /\ AuthIdle
    /\ MailIdle
    /\ HookIdle
    /\ ClientIdle

\* ------------------------------------------------------------ register
\* register, first half: take the event's lock and read the ledger.
RegisterBegin(u) ==
    /\ lockFree(lockHolder)
    /\ ~txn[u].active
    /\ lockHolder' = u
    /\ txn' = [txn EXCEPT ![u] = [active |-> TRUE,
                                  slots |-> availableSlots(capacity, registrations)]]
    /\ arrivals' = IF onWaitingList(arrivals, u) THEN arrivals ELSE Append(arrivals, u)
    /\ lastResult' = Result("registerBegin", "locked", 0)
    /\ UNCHANGED <<capacity, requiresPayment, registrations, waitingList>>
    /\ UNCHANGED <<sweeperVars, limiterVars, authVars, mailVars, hookVars, clientVars>>

\* register: duplicate check, then a slot if one is free, else the waiting
\* list.
registerOutcomeNoWaitlistCheck(regs, wl, u, slots) ==
    IF hasActiveRegistration(regs, u)
    THEN "DuplicateRegistration"
    ELSE IF slots > 0
         THEN IF canCreate(regs, u) THEN "registered" ELSE "DuplicateRegistration"
         ELSE "waitlisted"
registerOutcome(regs, wl, u, slots) ==
    IF hasActiveRegistration(regs, u) \/ onWaitingList(wl, u)
    THEN "DuplicateRegistration"
    ELSE IF slots > 0
         THEN IF canCreate(regs, u) THEN "registered" ELSE "DuplicateRegistration"
         ELSE "waitlisted"

\* register, second half: write according to what was read, commit, unlock.
RegisterCommit(u) ==
    /\ txn[u].active
    /\ LET outcome == registerOutcome(registrations, waitingList, u, txn[u].slots)
       IN /\ registrations' =
                IF outcome = "registered"
                THEN [registrations EXCEPT ![u] = newRegistration(requiresPayment)]
                ELSE registrations
          /\ waitingList' =
                IF outcome = "waitlisted" THEN Append(waitingList, u) ELSE waitingList
          /\ lastResult' = Result("register", outcome, 0)
    /\ txn' = [txn EXCEPT ![u] = IdleTxn]
    /\ lockHolder' = IF lockHolder = u THEN NoUser ELSE lockHolder
    /\ arrivals' = stillQueued(arrivals, waitingList', txn')
    /\ UNCHANGED <<capacity, requiresPayment>>
    /\ UNCHANGED <<sweeperVars, limiterVars, authVars, mailVars, hookVars, clientVars>>

NextRegister == \E u \in Users : RegisterBegin(u) \/ RegisterCommit(u)

\* ------------------------------------------------ registration state machine
setStatus(regs, r, st) == [regs EXCEPT ![r].status = st]

\* The Payment Correlator's report for a registration: its linked payment
\* is in the success state.
paymentSucceeded(regs, r) == regs[r].payment = "CONFIRMED"

\* confirmPayment: only valid from PENDING, once the payment succeeded.
confirmPaymentNoPaymentCheck(regs, r) ==
    IF ~hasRow(regs, r)
    THEN [regs |-> regs, outcome |-> "NotFound"]
    ELSE IF regs[r].status = "PENDING"
         THEN [regs |-> setStatus(regs, r, "CONFIRMED"), outcome |-> "confirmed"]
         ELSE [regs |-> regs, outcome |-> "InvalidTransition"]
confirmPaymentAnyState(regs, r) ==
    IF ~hasRow(regs, r)
    THEN [regs |-> regs, outcome |-> "NotFound"]
    ELSE IF paymentSucceeded(regs, r)
         THEN [regs |-> setStatus(regs, r, "CONFIRMED"), outcome |-> "confirmed"]
         ELSE [regs |-> regs, outcome |-> "InvalidTransition"]
confirmPayment(regs, r) ==
    IF ~hasRow(regs, r)
    THEN [regs |-> regs, outcome |-> "NotFound"]
    ELSE IF regs[r].status = "PENDING" /\ paymentSucceeded(regs, r)
         THEN [regs |-> setStatus(regs, r, "CONFIRMED"), outcome |-> "confirmed"]
         ELSE [regs |-> regs, outcome |-> "InvalidTransition"]

\* Number of promoteNext invocations a cancellation triggers: one when the
\* registration had been CONFIRMED, none when it had been PENDING.
promotionsOnCancel(st) == IF st = "CONFIRMED" THEN 1 ELSE 0

\* cancel: valid from PENDING or CONFIRMED.
cancelAnyState(regs, wl, pay, r) ==
    IF ~hasRow(regs, r)
    THEN [regs |-> regs, wl |-> wl, outcome |-> "NotFound",
          calls |-> 0, promoted |-> <<>>, skipped |-> 0]
    ELSE LET pr == promoteTimes(1, setStatus(regs, r, "CANCELLED"), wl, pay)
         IN [regs |-> pr.regs, wl |-> pr.wl, outcome |-> "cancelled",
             calls |-> 1, promoted |-> pr.promoted, skipped |-> pr.skipped]
cancel(regs, wl, pay, r) ==
    IF ~hasRow(regs, r)
    THEN [regs |-> regs, wl |-> wl, outcome |-> "NotFound",
          calls |-> 0, promoted |-> <<>>, skipped |-> 0]
    ELSE IF regs[r].status \in ActiveStatus
         THEN LET n == promotionsOnCancel(regs[r].status)
                  pr == promoteTimes(n, setStatus(regs, r, "CANCELLED"), wl, pay)
              IN [regs |-> pr.regs, wl |-> pr.wl, outcome |-> "cancelled",
                  calls |-> n, promoted |-> pr.promoted, skipped |-> pr.skipped]
         ELSE [regs |-> regs, wl |-> wl, outcome |-> "InvalidTransition",
               calls |-> 0, promoted |-> <<>>, skipped |-> 0]

Cancel(r) ==
    /\ lockFree(lockHolder)
    /\ LET res == cancel(registrations, waitingList, requiresPayment, r)
       IN /\ registrations' = res.regs
          /\ waitingList' = res.wl
          /\ lastResult' = ResultSkipping("cancel", res.outcome, res.calls, res.skipped)
    /\ arrivals' = stillQueued(arrivals, waitingList', txn)
    /\ UNCHANGED <<capacity, requiresPayment, lockHolder, txn>>
    /\ UNCHANGED <<sweeperVars, limiterVars, authVars, mailVars, hookVars, clientVars>>

ConfirmPayment(r) ==
    /\ lockFree(lockHolder)
    /\ LET res == confirmPayment(registrations, r)
       IN /\ registrations' = res.regs
          /\ lastResult' = Result("confirmPayment", res.outcome, 0)
    /\ UNCHANGED <<capacity, requiresPayment, waitingList, lockHolder, txn, arrivals>>
    /\ UNCHANGED <<sweeperVars, limiterVars, authVars, mailVars, hookVars, clientVars>>

\* ------------------------------------------------------ capacity increase
\* promoteNext is invoked once per unit of capacity added.
IncreaseCapacity(k) ==
    /\ lockFree(lockHolder)
    /\ capacity + k <= MaxCapacity
    /\ capacity' = capacity + k
    /\ LET pr == promoteTimes(k, registrations, waitingList, requiresPayment)
       IN /\ registrations' = pr.regs
          /\ waitingList' = pr.wl
          /\ lastResult' = ResultSkipping("increaseCapacity", "ok", k, pr.skipped)
    /\ arrivals' = stillQueued(arrivals, waitingList', txn)
    /\ UNCHANGED <<requiresPayment, lockHolder, txn>>
    /\ UNCHANGED <<sweeperVars, limiterVars, authVars, mailVars, hookVars, clientVars>>

\* ------------------------------------------------------ payment correlator
\* onPaymentStatusChange for the payment linked to registration r: success
\* confirms a PENDING registration, a terminal failure cancels it.
OnPaymentStatusChange(r, newStatus) ==
    /\ lockFree(lockHolder)
    /\ registrations[r].payment \in {"PENDING", "CONFIRMED"}
    /\ newStatus # registrations[r].payment
    /\ LET paid == [registrations EXCEPT ![r].payment = newStatus]
       IN IF newStatus = "CONFIRMED" /\ registrations[r].status = "PENDING"
          THEN LET res == confirmPayment(paid, r)
               IN /\ registrations' = res.regs
                  /\ waitingList' = waitingList
                  /\ lastResult' = Result("onPaymentStatusChange", res.outcome, 0)
          ELSE IF newStatus = "FAILED"
               THEN LET res == cancel(paid, waitingList, requiresPayment, r)
                    IN /\ registrations' = res.regs
                       /\ waitingList' = res.wl
                       /\ lastResult' = ResultSkipping("onPaymentStatusChange",
                                                       res.outcome, res.calls,
                                                       res.skipped)
               ELSE /\ registrations' = paid
                    /\ waitingList' = waitingList
                    /\ lastResult' = Result("onPaymentStatusChange", "ignored", 0)
    /\ arrivals' = stillQueued(arrivals, waitingList', txn)
    /\ UNCHANGED <<capacity, requiresPayment, lockHolder, txn>>
    /\ UNCHANGED <<sweeperVars, limiterVars, authVars, mailVars, hookVars, clientVars>>

Next ==
    \/ \E u \in Users : RegisterBegin(u)
    \/ \E u \in Users : RegisterCommit(u)
    \/ \E r \in Users : Cancel(r)
    \/ \E r \in Users : ConfirmPayment(r)
    \/ \E k \in 1..MaxCapacity : IncreaseCapacity(k)
    \/ \E r \in Users, st \in {"CONFIRMED", "FAILED"} : OnPaymentStatusChange(r, st)

Spec == Init /\ [][Next]_vars

SpecRegister == Init /\ [][NextRegister]_vars
\* ================================================================ claims

statusOf(u) == registrations[u].status

AllRegistered ==
    /\ \A u \in Users : ~txn[u].active
    /\ \A u \in Users : hasRow(registrations, u) \/ onWaitingList(waitingList, u)

\* C2: when all users register concurrently on an event without payment
\* requirement whose capacity is below their number, the slots taken never
\* exceed the capacity, the users waiting are queued in the order in which
\* they arrived, and at the end exactly capacity users are CONFIRMED and all
\* others are on the waiting list in arrival order.
C2_ConcurrentRegister ==
    (~requiresPayment /\ capacity < NumUsers) =>
        /\ countActive(registrations) <= capacity
        /\ waitingList = SelectSeq(arrivals, LAMBDA u : onWaitingList(waitingList, u))
        /\ AllRegistered =>
              /\ countConfirmed(registrations) = capacity
              /\ Len(waitingList) = NumUsers - capacity
              /\ waitingList = arrivals

C2_Witness ==
    /\ ~requiresPayment
    /\ AllRegistered
    /\ countConfirmed(registrations) = capacity
    /\ Len(waitingList) >= 1
    /\ lastResult.outcome = "waitlisted"

\* C3: no user has an active (PENDING or CONFIRMED) registration and a
\* waiting-list entry at the same time, and no user has two waiting-list
\* entries.
C3_OneOfRegistrationOrWaiting ==
    /\ \A u \in Users :
          ~(hasActiveRegistration(registrations, u) /\ onWaitingList(waitingList, u))
    /\ \A i, j \in DOMAIN waitingList : waitingList[i] = waitingList[j] => i = j

\* A register call was rejected as a duplicate while users are waiting and
\* others hold registrations.
C3_Witness ==
    /\ lastResult.op = "register"
    /\ lastResult.outcome = "DuplicateRegistration"
    /\ waitingList # <<>>
    /\ \E u \in Users : hasActiveRegistration(registrations, u)

\* C4: when exactly one slot frees while at least two users wait, the
\* registration promoteNext creates belongs to the user enqueued first and
\* the others stay on the waiting list.
C4_FifoPromotion ==
    [][(lastResult'.promoteCalls = 1 /\ Len(waitingList) >= 2) =>
          /\ ~hasActiveRegistration(registrations, Head(waitingList))
          /\ hasActiveRegistration(registrations', Head(waitingList))
          /\ waitingList' = Tail(waitingList)]_vars

\* C5: cancel on an already CANCELLED registration fails with
\* InvalidTransition, invokes no promotion and leaves registrations, waiting
\* list, capacity and free slots as they were.
C5_SecondCancelChangesNothing ==
    [][\A r \in Users :
          (statusOf(r) = "CANCELLED" /\ Cancel(r)) =>
              /\ lastResult'.outcome = "InvalidTransition"
              /\ lastResult'.promoteCalls = 0
              /\ registrations' = registrations
              /\ waitingList' = waitingList
              /\ availableSlots(capacity', registrations')
                    = availableSlots(capacity, registrations)]_vars

\* A cancel was answered InvalidTransition: every registration is CANCELLED,
\* and a user is still waiting.
C5_Witness ==
    /\ lastResult.op = "cancel"
    /\ lastResult.outcome = "InvalidTransition"
    /\ waitingList # <<>>
    /\ \A u \in Users : hasRow(registrations, u) => statusOf(u) = "CANCELLED"

AllowedTransitions ==
    {<<"NONE", "PENDING">>, <<"NONE", "CONFIRMED">>, <<"PENDING", "CONFIRMED">>,
     <<"PENDING", "CANCELLED">>, <<"CONFIRMED", "CANCELLED">>}

\* C6: a registration is created PENDING or CONFIRMED and its status changes
\* only PENDING->CONFIRMED, PENDING->CANCELLED or CONFIRMED->CANCELLED;
\* confirmPayment on a CONFIRMED or CANCELLED registration fails with
\* InvalidTransition and leaves the registrations unchanged; nothing leaves
\* CANCELLED.
C6_StatusTransitions ==
    [][/\ \A r \in Users :
             registrations'[r].status # statusOf(r) =>
                 <<statusOf(r), registrations'[r].status>> \in AllowedTransitions
       /\ \A r \in Users :
             (statusOf(r) \in {"CONFIRMED", "CANCELLED"} /\ ConfirmPayment(r)) =>
                 /\ lastResult'.outcome = "InvalidTransition"
                 /\ registrations' = registrations]_vars

\* confirmPayment was answered InvalidTransition when no registration was
\* PENDING, one of them CANCELLED with a successful payment.
C6_Witness ==
    /\ lastResult.op = "confirmPayment"
    /\ lastResult.outcome = "InvalidTransition"
    /\ \A u \in Users : statusOf(u) # "PENDING"
    /\ \E u \in Users : statusOf(u) = "CANCELLED" /\ registrations[u].payment = "CONFIRMED"
    /\ \E u \in Users : statusOf(u) = "CONFIRMED"

\* C7: on an event that requires payment every CONFIRMED registration has a
\* linked payment in the success state, every registration is created
\* PENDING with a payment that has not succeeded, and a registration becomes CONFIRMED only in a step that finds
\* its payment successful.
C7_PaymentGatesConfirmation ==
    /\ [](requiresPayment =>
            \A r \in Users :
                statusOf(r) = "CONFIRMED" => registrations[r].payment = "CONFIRMED")
    /\ [][requiresPayment =>
            \A r \in Users :
                /\ (statusOf(r) = "NONE" /\ registrations'[r].status # "NONE")
                       => registrations'[r] = [status |-> "PENDING", payment |-> "PENDING"]
                /\ (statusOf(r) # "CONFIRMED" /\ registrations'[r].status = "CONFIRMED")
                       => (statusOf(r) = "PENDING"
                           /\ registrations'[r].payment = "CONFIRMED")]_vars

\* A payment-success notification confirmed a registration of a paid event
\* while another registration is still PENDING.
C7_Witness ==
    /\ requiresPayment
    /\ lastResult.op = "onPaymentStatusChange"
    /\ lastResult.outcome = "confirmed"
    /\ \E u \in Users : statusOf(u) = "CONFIRMED"
    /\ \E u \in Users : statusOf(u) = "PENDING"

\* C8: on an event with capacity 1, after register and cancel by a user (the
\* user's registration is CANCELLED, nobody else is registered or waiting),
\* register by the same user succeeds and leaves the user off the waiting
\* list.
C8_RegisterCancelRegister ==
    [][\A u \in Users :
          (/\ capacity = 1
           /\ statusOf(u) = "CANCELLED"
           /\ \A v \in Users \ {u} : statusOf(v) = "NONE"
           /\ waitingList = <<>>
           /\ RegisterCommit(u)) =>
              /\ lastResult'.outcome = "registered"
              /\ hasActiveRegistration(registrations', u)
              /\ ~onWaitingList(waitingList', u)]_vars

\* A step that cancels registration r.
Cancels(r) == Cancel(r) \/ OnPaymentStatusChange(r, "FAILED")

\* C9: a successful cancellation invokes promoteNext once when the
\* registration was CONFIRMED and not at all when it was PENDING; cancelling
\* a CONFIRMED registration of a full event with a non-empty waiting list
\* leaves the earliest waiting user registered and off the waiting list.
C9_PromotionPerCancellation ==
    [][\A r \in Users :
          /\ (statusOf(r) = "CONFIRMED" /\ Cancels(r)) => lastResult'.promoteCalls = 1
          /\ (statusOf(r) = "PENDING" /\ Cancels(r)) => lastResult'.promoteCalls = 0
          /\ (/\ statusOf(r) = "CONFIRMED"
              /\ Cancels(r)
              /\ availableSlots(capacity, registrations) = 0
              /\ waitingList # <<>>) =>
                 /\ hasActiveRegistration(registrations', Head(waitingList))
                 /\ ~onWaitingList(waitingList', Head(waitingList))]_vars

\* C10: when the payment of a PENDING registration fails while users wait,
\* the registration becomes CANCELLED and the earliest waiting user gets a
\* new registration (PENDING on a paid event) and leaves the waiting list.
C10_PaymentFailurePromotes ==
    [][\A r \in Users :
          (/\ statusOf(r) = "PENDING"
           /\ waitingList # <<>>
           /\ OnPaymentStatusChange(r, "FAILED")) =>
              /\ registrations'[r].status = "CANCELLED"
              /\ registrations'[Head(waitingList)].status = initialStatus(requiresPayment)
              /\ waitingList' = Tail(waitingList)]_vars

\* C11: a single promoteNext invocation passes over the leading waiting-list
\* entries whose registration cannot be created (the user already has a
\* Registration row) and registers the earliest entry that can be created,
\* leaving the entries behind it queued in order; when no entry can be
\* created the queue is exhausted and nobody is registered; on an empty queue
\* it creates no registration and the queue stays empty.
C11_RetryNext ==
    [][lastResult'.promoteCalls = 1 =>
          LET wl == waitingList
              fails(i) == statusOf(wl[i]) # "NONE"
              firstOk == {i \in DOMAIN wl :
                             ~fails(i) /\ \A j \in 1..(i - 1) : fails(j)}
          IN /\ \A i \in firstOk :
                   /\ hasActiveRegistration(registrations', wl[i])
                   /\ waitingList' = SubSeq(wl, i + 1, Len(wl))
                   /\ lastResult'.skipped = i - 1
             /\ firstOk = {} =>
                   /\ waitingList' = <<>>
                   /\ lastResult'.skipped = Len(wl)
             /\ \A u \in Users :
                   (statusOf(u) = "NONE" /\ registrations'[u].status # "NONE")
                       => \E i \in firstOk : u = wl[i]]_vars

\* On an event of capacity 1 a cancellation passed over the head of the
\* waiting list and registered the user behind it.
C11_Witness ==
    /\ capacity = 1
    /\ lastResult.op = "cancel"
    /\ lastResult.promoteCalls = 1
    /\ lastResult.skipped = 1
    /\ countActive(registrations) = 1
    /\ waitingList = <<>>

\* ======================================================== cleanup sweeper
RegistrationIdle ==
    /\ capacity = 1
    /\ requiresPayment = FALSE
    /\ registrations = [u \in Users |-> NoRow]
    /\ waitingList = <<>>
    /\ lockHolder = NoUser
    /\ txn = [u \in Users |-> IdleTxn]
    /\ arrivals = <<>>
    /\ lastResult = Result("init", "ok", 0)

\* ------------------------------------------------------------- bounds
\* Rows are aged within AgeSpread days of every retention window; the job
\* runs up to MaxDelay days after the rows were written.
AgeSpread == 1
MaxDelay == 1
RunDay == 100

\* ---------------------------------------------------- retention windows
ExpiredUserRolesDays == 30
OldAuditLogsDays == 90
FailedPaymentsDays == 7
ExpiredWaitingListDays == 7
CancelledRegistrationsDays == 30
OldNotificationLogsDays == 60

\* The categories of CleanupOptions, in the order the function handles them.
Categories ==
    <<"expiredUserRoles", "oldAuditLogs", "failedPayments", "expiredWaitingList",
      "cancelledRegistrations", "oldNotificationLogs", "optimizeDatabase">>

CategorySet == {Categories[i] : i \in DOMAIN Categories}

\* The categories that delete rows and report a count.
TableCategories == CategorySet \ {"optimizeDatabase"}

retentionDaysWaitingListAsRegistrations(c) ==
    CASE c = "expiredUserRoles" -> ExpiredUserRolesDays
      [] c = "oldAuditLogs" -> OldAuditLogsDays
      [] c = "failedPayments" -> FailedPaymentsDays
      [] c = "expiredWaitingList" -> CancelledRegistrationsDays
      [] c = "cancelledRegistrations" -> CancelledRegistrationsDays
      [] c = "oldNotificationLogs" -> OldNotificationLogsDays
retentionDays(c) ==
    CASE c = "expiredUserRoles" -> ExpiredUserRolesDays
      [] c = "oldAuditLogs" -> OldAuditLogsDays
      [] c = "failedPayments" -> FailedPaymentsDays
      [] c = "expiredWaitingList" -> ExpiredWaitingListDays
      [] c = "cancelledRegistrations" -> CancelledRegistrationsDays
      [] c = "oldNotificationLogs" -> OldNotificationLogsDays

errorMessage(c) ==
    CASE c = "expiredUserRoles" -> "Failed to clean expired user roles"
      [] c = "oldAuditLogs" -> "Failed to clean audit logs"
      [] c = "failedPayments" -> "Failed to clean failed payments"
      [] c = "expiredWaitingList" -> "Failed to clean waiting list"
      [] c = "cancelledRegistrations" -> "Failed to clean cancelled registrations"
      [] c = "oldNotificationLogs" -> "Failed to clean notification logs"
      [] c = "optimizeDatabase" -> "Failed to optimize database"

\* A row of a swept table: ts is the day of the column the query compares
\* (expiresAt, timestamp, createdAt, the event's endDate, cancelledAt,
\* createdAt), sel whether the row passes the other conditions of the where
\* clause (isActive false, status FAILED, status CANCELLED, a final
\* notification status).
Ages ==
    UNION {(w - AgeSpread)..(w + AgeSpread) :
              w \in {ExpiredUserRolesDays, OldAuditLogsDays, FailedPaymentsDays,
                     ExpiredWaitingListDays, CancelledRegistrationsDays,
                     OldNotificationLogsDays}}

InitialTables ==
    [c \in TableCategories |->
        {[ts |-> RunDay - a, sel |-> b] : a \in Ages, b \in BOOLEAN}]

\* The where clause of a category's deleteMany without its date condition;
\* audit logs and the waiting-list entries of ended events have none.
selected(c, row) ==
    IF c \in {"oldAuditLogs", "expiredWaitingList"} THEN TRUE ELSE row.sel

\* The rows a category's deleteMany removes: { lt: <today minus the window> }.
doomed(rows, c, today) ==
    {row \in rows : selected(c, row) /\ row.ts < today - retentionDays(c)}

\* ------------------------------------------------- performDatabaseCleanup
\* What the function has done so far: the tables, the counts and errors it
\* collected, the categories whose queries it sent, and whether a statement
\* outside the per-category try blocks threw (none of them can).
StartSweep(tbls) ==
    [tables |-> tbls, counts |-> [c \in {} |-> 0], errors |-> <<>>,
     queries |-> {}, thrown |-> FALSE]

\* One category: skipped unless its flag is set; a throwing query leaves the
\* table as it was and adds the category's message to errors; otherwise the
\* rows are deleted and counted (optimizeDatabase only runs ANALYZE).
cleanCategoryAbortingAfterError(acc, c, today, options, failing) ==
    IF c \notin options \/ acc.errors # <<>>
    THEN acc
    ELSE IF c \in failing
         THEN [acc EXCEPT !.errors = Append(@, errorMessage(c)),
                          !.queries = @ \cup {c}]
         ELSE IF c = "optimizeDatabase"
              THEN [acc EXCEPT !.queries = @ \cup {c}]
              ELSE LET gone == doomed(acc.tables[c], c, today)
                   IN [acc EXCEPT !.tables[c] = @ \ gone,
                                  !.counts = (c :> Cardinality(gone)) @@ @,
                                  !.queries = @ \cup {c}]
cleanCategoryIgnoringOptions(acc, c, today, options, failing) ==
    IF c \in failing
    THEN [acc EXCEPT !.errors = Append(@, errorMessage(c)),
                     !.queries = @ \cup {c}]
    ELSE IF c = "optimizeDatabase"
         THEN [acc EXCEPT !.queries = @ \cup {c}]
         ELSE LET gone == doomed(acc.tables[c], c, today)
              IN [acc EXCEPT !.tables[c] = @ \ gone,
                             !.counts = (c :> Cardinality(gone)) @@ @,
                             !.queries = @ \cup {c}]
cleanCategory(acc, c, today, options, failing) ==
    IF c \notin options
    THEN acc
    ELSE IF c \in failing
         THEN [acc EXCEPT !.errors = Append(@, errorMessage(c)),
                          !.queries = @ \cup {c}]
         ELSE IF c = "optimizeDatabase"
              THEN [acc EXCEPT !.queries = @ \cup {c}]
              ELSE LET gone == doomed(acc.tables[c], c, today)
                   IN [acc EXCEPT !.tables[c] = @ \ gone,
                                  !.counts = (c :> Cardinality(gone)) @@ @,
                                  !.queries = @ \cup {c}]

RECURSIVE sweepFrom(_, _, _, _, _)
sweepFrom(i, acc, today, options, failing) ==
    IF i > Len(Categories)
    THEN acc
    ELSE sweepFrom(i + 1, cleanCategory(acc, Categories[i], today, options, failing),
                   today, options, failing)

performDatabaseCleanup(tbls, today, options, failing) ==
    sweepFrom(1, StartSweep(tbls), today, options, failing)

\* The queries that throw in a call: any of them while the database is
\* reachable, every one of them when it is not.
Failures(options) == IF dbReachable THEN SUBSET options ELSE {options}

Finished(caller, options, failing, res) ==
    [phase |-> "done", caller |-> caller, options |-> options, failing |-> failing,
     counts |-> res.counts, errors |-> res.errors, queries |-> res.queries,
     thrown |-> res.thrown]

\* A behaviour holds one cleanup job: nothing has run or answered yet.
NoJobYet == run.phase = "idle" /\ cron = NoResponse

\* A call of performDatabaseCleanup with the given option flags.
PerformDatabaseCleanup(options, failing) ==
    /\ NoJobYet
    /\ LET res == performDatabaseCleanup(tables, now, options, failing)
       IN /\ tables' = res.tables
          /\ run' = Finished("direct", options, failing, res)
    /\ UNCHANGED <<now, dbReachable, cron>>
    /\ UNCHANGED <<registrationVars, limiterVars, authVars, mailVars, hookVars, clientVars>>

\* ------------------------------------------------ GET /api/cron/cleanup
\* Strings are sequences of pieces; "Bearer " is one piece.
MaxHeaderLen == 3
MaxSecretLen == 2

SeqsUpTo(S, n) == UNION {[1..k -> S] : k \in 0..n}

\* A request with the process environment it meets: the authorization
\* header (<<>> when absent), CRON_SECRET (<<>> when not configured),
\* whether NODE_ENV is production, and whether the user-agent or the
\* x-vercel-source header says the request comes from Vercel.
Requests ==
    [header : SeqsUpTo({"Bearer ", "s", "x"}, MaxHeaderLen),
     secret : SeqsUpTo({"s", "x"}, MaxSecretLen),
     production : BOOLEAN,
     fromVercel : BOOLEAN]

\* String.prototype.replace with a string pattern: the first occurrence of
\* the pattern is replaced, wherever it is.
RECURSIVE replaceFirst(_, _)
replaceFirst(str, piece) ==
    IF str = <<>>
    THEN <<>>
    ELSE IF Head(str) = piece
         THEN Tail(str)
         ELSE <<Head(str)>> \o replaceFirst(Tail(str), piece)

verifyVercelCronSecret(req) ==
    IF req.header = <<>>
    THEN [success |-> FALSE, error |-> "Missing authorization header"]
    ELSE IF req.secret = <<>>
         THEN [success |-> FALSE, error |-> "Cron secret not configured"]
         ELSE IF replaceFirst(req.header, "Bearer ") # req.secret
              THEN [success |-> FALSE, error |-> "Invalid cron secret"]
              ELSE IF req.production /\ ~req.fromVercel
                   THEN [success |-> FALSE, error |-> "Request not from Vercel"]
                   ELSE [success |-> TRUE, error |-> ""]

\* The response of the route once performDatabaseCleanup has returned or
\* thrown.
cronResponseFailingOnErrors(req, res) ==
    IF res.thrown \/ res.errors # <<>>
    THEN [request |-> req, status |-> 500, success |-> FALSE,
          message |-> "Database cleanup failed"]
    ELSE [request |-> req, status |-> 200, success |-> TRUE,
          message |-> "Database cleanup completed successfully",
          results |-> [counts |-> res.counts, errors |-> res.errors]]
cronResponse(req, res) ==
    IF res.thrown
    THEN [request |-> req, status |-> 500, success |-> FALSE,
          message |-> "Database cleanup failed"]
    ELSE [request |-> req, status |-> 200, success |-> TRUE,
          message |-> "Database cleanup completed successfully",
          results |-> [counts |-> res.counts, errors |-> res.errors]]

\* GET: 401 unless the cron secret verifies, else the cleanup with every
\* option flag set and the summary of what it returned.
CronGet(req, failing) ==
    /\ NoJobYet
    /\ LET auth == verifyVercelCronSecret(req)
           res == performDatabaseCleanup(tables, now, CategorySet, failing)
       IN IF ~auth.success
          THEN /\ cron' = [request |-> req, status |-> 401, error |-> "Unauthorized",
                           message |-> auth.error]
               /\ UNCHANGED <<tables, run>>
          ELSE /\ tables' = res.tables
               /\ run' = Finished("cron", CategorySet, failing, res)
               /\ cron' = cronResponse(req, res)
    /\ UNCHANGED <<now, dbReachable>>
    /\ UNCHANGED <<registrationVars, limiterVars, authVars, mailVars, hookVars, clientVars>>

InitCleanup ==
    /\ now \in RunDay..(RunDay + MaxDelay)
    /\ dbReachable \in BOOLEAN
    /\ tables = InitialTables
    /\ run = NoRun
    /\ cron = NoResponse
    /\ RegistrationIdle
    /\ LimiterIdle
    /\ AuthIdle
    /\ MailIdle
    /\ HookIdle
    /\ ClientIdle

NextCleanup ==
    \/ /\ NoJobYet
       /\ \E options \in SUBSET CategorySet :
             \E failing \in Failures(options) : PerformDatabaseCleanup(options, failing)
    \/ /\ NoJobYet
       /\ \E req \in Requests :
             \E failing \in IF verifyVercelCronSecret(req).success
                            THEN Failures(CategorySet) ELSE {{}} :
                CronGet(req, failing)

SpecCleanup == InitCleanup /\ [][NextCleanup]_vars

\* ------------------------------------------------------- cleanup claims
Deleted(c) == InitialTables[c] \ tables[c]

\* C12: when a cleanup call has returned, it has not thrown, every enabled
\* category was attempted whatever happened to the others, every enabled
\* category whose query threw contributed one string to the errors list and
\* no count, and every other enabled category has its deleted-row count
\* recorded.
C12_CategoriesIndependent ==
    run.phase = "done" =>
        /\ ~run.thrown
        /\ run.queries = run.options
        /\ Len(run.errors) = Cardinality(run.options \cap run.failing)
        /\ \A c \in run.options :
              /\ c \in run.failing =>
                    /\ \E i \in DOMAIN run.errors : run.errors[i] = errorMessage(c)
                    /\ c \notin DOMAIN run.counts
              /\ (c \notin run.failing /\ c \in TableCategories) =>
                    /\ c \in DOMAIN run.counts
                    /\ run.counts[c] = Cardinality(Deleted(c))

\* The first category failed on a reachable database and the last table
\* category still deleted rows and reported their count.
C12_Witness ==
    /\ run.phase = "done"
    /\ dbReachable
    /\ "expiredUserRoles" \in run.options \cap run.failing
    /\ "oldNotificationLogs" \in DOMAIN run.counts
    /\ run.counts["oldNotificationLogs"] > 0
    /\ Len(run.errors) = 1

\* C13: a cleanup job that sent queries fails as a whole (the function
\* throws, the cron endpoint answers 500) exactly when the database cannot be
\* reached.
C13_FailsIffUnreachable ==
    (run.phase = "done" /\ run.queries # {}) =>
        /\ run.thrown <=> ~dbReachable
        /\ run.caller = "cron" => (cron.status = 500 <=> ~dbReachable)

\* C14: in the result of a cleanup call only enabled categories have a count
\* or an error, no query was sent for a disabled category and its table is
\* unchanged; with only oldAuditLogs enabled the only count is oldAuditLogs.
C14_OnlyEnabledCategories ==
    run.phase = "done" =>
        /\ DOMAIN run.counts \subseteq run.options
        /\ run.queries \subseteq run.options
        /\ \A i \in DOMAIN run.errors :
              \E c \in run.options : run.errors[i] = errorMessage(c)
        /\ \A c \in TableCategories \ run.options : tables[c] = InitialTables[c]
        /\ (run.options = {"oldAuditLogs"} /\ run.failing = {}) =>
              /\ DOMAIN run.counts = {"oldAuditLogs"}
              /\ run.errors = <<>>

\* A call with only oldAuditLogs set deleted audit logs and nothing else.
C14_Witness ==
    /\ run.phase = "done"
    /\ run.options = {"oldAuditLogs"}
    /\ DOMAIN run.counts = {"oldAuditLogs"}
    /\ run.counts["oldAuditLogs"] > 0
    /\ \A c \in TableCategories \ {"oldAuditLogs"} :
          tables[c] = InitialTables[c] /\ tables[c] # {}

presentedToken(header) ==
    IF header # <<>> /\ Head(header) = "Bearer " THEN Tail(header) ELSE header

\* C16: a GET whose authorization header is missing, that finds CRON_SECRET
\* not configured, or whose presented token differs from CRON_SECRET is
\* answered 401 and no cleanup query is executed.
C16_CleanupBehindBearerToken ==
    (/\ cron # NoResponse
     /\ \/ cron.request.header = <<>>
        \/ cron.request.secret = <<>>
        \/ presentedToken(cron.request.header) # cron.request.secret) =>
        /\ cron.status = 401
        /\ run.phase = "idle"
        /\ tables = InitialTables

\* C17: once the cron endpoint has run the cleanup, it answers 200 with
\* success true, the counts of the categories that succeeded and the error
\* strings of those that failed unless performDatabaseCleanup threw, and 500
\* with success false only if it threw.
C17_PartialSuccessSummary ==
    (run.phase = "done" /\ run.caller = "cron") =>
        /\ ~run.thrown =>
              /\ cron.status = 200
              /\ cron.success
              /\ cron.results = [counts |-> run.counts, errors |-> run.errors]
              /\ DOMAIN cron.results.counts = TableCategories \ run.failing
              /\ Len(cron.results.errors) = Cardinality(run.failing)
        /\ run.thrown => (cron.status = 500 /\ ~cron.success)

\* The endpoint answered 200 although two categories failed, with the counts
\* of the other four table categories.
C17_Witness ==
    /\ run.phase = "done"
    /\ run.caller = "cron"
    /\ cron.status = 200
    /\ cron.success
    /\ Len(cron.results.errors) = 2
    /\ Cardinality(DOMAIN cron.results.counts) = 4

\* ============================================================ rate limiter
\* ------------------------------------------------------------- bounds
\* The window and the limit every call of a behaviour is made with, and the
\* last millisecond of the clock.
WindowMs == 3
MaxRequests == 2
MaxClock == 5

\* Client identifiers ("ip:<address>").
Keys == {"ip:a", "ip:b"}

\* SimpleRateLimiter.isAllowed on the times kept for the key: drop the times
\* outside the window, refuse when maxRequests remain, else keep the pruned
\* times with the current one added.
isAllowedOffByOne(kept, nowMs, windowMs, maxRequests) ==
    LET validRequests == SelectSeq(kept, LAMBDA time : nowMs - time < windowMs)
    IN IF Len(validRequests) > maxRequests
       THEN [allowed |-> FALSE, kept |-> kept]
       ELSE [allowed |-> TRUE, kept |-> Append(validRequests, nowMs)]
isAllowed(kept, nowMs, windowMs, maxRequests) ==
    LET validRequests == SelectSeq(kept, LAMBDA time : nowMs - time < windowMs)
    IN IF Len(validRequests) >= maxRequests
       THEN [allowed |-> FALSE, kept |-> kept]
       ELSE [allowed |-> TRUE, kept |-> Append(validRequests, nowMs)]

InitLimiter ==
    /\ clock = 0
    /\ requests = [k \in Keys |-> <<>>]
    /\ allowedLog = [k \in Keys |-> <<>>]
    /\ lastAnswer = NoAnswer
    /\ RegistrationIdle
    /\ SweeperIdle
    /\ AuthIdle
    /\ MailIdle
    /\ HookIdle
    /\ ClientIdle

\* Date.now() advances.
Tick ==
    /\ clock < MaxClock
    /\ clock' = clock + 1
    /\ UNCHANGED <<requests, allowedLog, lastAnswer>>
    /\ UNCHANGED <<registrationVars, sweeperVars, authVars, mailVars, hookVars, clientVars>>

IsAllowed(key) ==
    /\ LET res == isAllowed(requests[key], clock, WindowMs, MaxRequests)
       IN /\ requests' = [requests EXCEPT ![key] = res.kept]
          /\ allowedLog' = IF res.allowed
                           THEN [allowedLog EXCEPT ![key] = Append(@, clock)]
                           ELSE allowedLog
          /\ lastAnswer' = [key |-> key, time |-> clock, allowed |-> res.allowed]
    /\ UNCHANGED clock
    /\ UNCHANGED <<registrationVars, sweeperVars, authVars, mailVars, hookVars, clientVars>>

NextLimiter ==
    \/ Tick
    \/ \E key \in Keys : IsAllowed(key)

SpecLimiter == InitLimiter /\ [][NextLimiter]_vars

\* The allowed calls of a key made before the last answered call.
EarlierAllowed ==
    LET log == allowedLog[lastAnswer.key]
    IN IF lastAnswer.allowed THEN SubSeq(log, 1, Len(log) - 1) ELSE log

\* C18: for every key, no more than MaxRequests of the calls answered true lie
\* within a time span shorter than WindowMs, and the last call was answered
\* false exactly when MaxRequests earlier allowed calls of its key were less
\* than WindowMs old.
C18_SlidingWindow ==
    /\ \A k \in Keys :
          \A i \in DOMAIN allowedLog[k] :
              Cardinality({j \in DOMAIN allowedLog[k] :
                              /\ j >= i
                              /\ allowedLog[k][j] - allowedLog[k][i] < WindowMs})
                  <= MaxRequests
    /\ lastAnswer # NoAnswer =>
          (~lastAnswer.allowed <=>
              Cardinality({j \in DOMAIN EarlierAllowed :
                              lastAnswer.time - EarlierAllowed[j] < WindowMs})
                  >= MaxRequests)

\* A call was refused for a key that had been allowed more than MaxRequests
\* calls in all, the oldest of them outside the window by then, while the
\* other key had calls allowed in the same millisecond.
C18_Witness ==
    /\ lastAnswer # NoAnswer
    /\ ~lastAnswer.allowed
    /\ Len(allowedLog[lastAnswer.key]) > MaxRequests
    /\ \E k \in Keys \ {lastAnswer.key} :
          \E j \in DOMAIN allowedLog[k] : allowedLog[k][j] = lastAnswer.time

\* ========================================================= auth endpoints
\* What Kinde holds for the caller.  getPermissions() gives null or an object
\* { permissions: string[], orgCode }, getOrganization() null or an object
\* { orgCode, orgName }; an absent object is a record with present FALSE.
Accounts == {"kp_1", "kp_2"}
PermissionNames == {"events.read", "events.manage"}

NoPermissions == [present |-> FALSE, permissions |-> {}, orgCode |-> "null"]
NoOrganization == [present |-> FALSE, orgCode |-> "null", orgName |-> "null"]

PermissionObjects ==
    [present : {TRUE}, permissions : SUBSET PermissionNames, orgCode : {"null", "org_1"}]
OrganizationObjects ==
    [present : {TRUE}, orgCode : {"org_1"}, orgName : {"null", "Org One"}]

\* sdkThrows: the calls on the Kinde session throw instead of answering.
Sessions ==
    [authenticated : {FALSE}, user : {"null"}, permissions : {NoPermissions},
     organization : {NoOrganization}, sdkThrows : BOOLEAN]
    \cup
    [authenticated : {TRUE}, user : Accounts,
     permissions : PermissionObjects \cup {NoPermissions},
     organization : OrganizationObjects \cup {NoOrganization}, sdkThrows : BOOLEAN]

\* getCurrentUser: the session's user, null when there is none or when the
\* lookup throws.
getCurrentUser(sess) == IF sess.sdkThrows THEN "null" ELSE sess.user

NotAuthenticated == [status |-> 401, body |-> [error |-> "Not authenticated"]]
InternalServerError == [status |-> 500, body |-> [error |-> "Internal server error"]]

\* GET /api/auth/me
meRoute(sess) ==
    IF getCurrentUser(sess) = "null"
    THEN NotAuthenticated
    ELSE [status |-> 200, body |-> [id |-> getCurrentUser(sess)]]

\* GET /api/auth/permissions
permissionsRouteNoAuthCheck(sess) ==
    IF sess.sdkThrows
    THEN InternalServerError
    ELSE [status |-> 200,
          body |-> [permissions |-> sess.permissions.permissions,
                    orgCode |-> sess.permissions.orgCode]]
permissionsRoute(sess) ==
    IF sess.sdkThrows
    THEN InternalServerError
    ELSE IF ~sess.authenticated
         THEN NotAuthenticated
         ELSE [status |-> 200,
               body |-> [permissions |-> sess.permissions.permissions,
                         orgCode |-> sess.permissions.orgCode]]

\* GET /api/auth/organization
organizationRoute(sess) ==
    IF sess.sdkThrows
    THEN InternalServerError
    ELSE IF ~sess.authenticated
         THEN NotAuthenticated
         ELSE [status |-> 200,
               body |-> [organization |->
                   IF sess.organization.present
                   THEN [sess.organization EXCEPT
                           !.orgName = IF @ = "null" THEN "Default Organization" ELSE @]
                   ELSE NoOrganization]]

\* The property names the JavaScript `in` operator finds on the object
\* getPermissions() returns: its own keys and those it inherits from
\* Object.prototype.
ownKeys == {"permissions", "orgCode"}
inheritedKeys == {"constructor", "toString"}

\* The names hasPermission is asked about.
AskedNames == PermissionNames \cup {"orgCode", "toString", "events.delete"}

\* hasPermission: false when the lookup throws or there is no permissions
\* object, else `permission in permissions`.
hasPermission(sess, permission) ==
    IF sess.sdkThrows
    THEN FALSE
    ELSE IF ~sess.permissions.present
         THEN FALSE
         ELSE permission \in ownKeys \cup inheritedKeys

InitAuth ==
    /\ session \in Sessions
    /\ reply = NoReply
    /\ RegistrationIdle
    /\ SweeperIdle
    /\ LimiterIdle
    /\ MailIdle
    /\ HookIdle
    /\ ClientIdle

GetMe ==
    /\ reply' = [call |-> "me"] @@ meRoute(session)
    /\ UNCHANGED session
    /\ UNCHANGED <<registrationVars, sweeperVars, limiterVars, mailVars, hookVars, clientVars>>

GetPermissions ==
    /\ reply' = [call |-> "permissions"] @@ permissionsRoute(session)
    /\ UNCHANGED session
    /\ UNCHANGED <<registrationVars, sweeperVars, limiterVars, mailVars, hookVars, clientVars>>

GetOrganization ==
    /\ reply' = [call |-> "organization"] @@ organizationRoute(session)
    /\ UNCHANGED session
    /\ UNCHANGED <<registrationVars, sweeperVars, limiterVars, mailVars, hookVars, clientVars>>

HasPermission(permission) ==
    /\ reply' = [call |-> "hasPermission", permission |-> permission,
                 result |-> hasPermission(session, permission)]
    /\ UNCHANGED session
    /\ UNCHANGED <<registrationVars, sweeperVars, limiterVars, mailVars, hookVars, clientVars>>

NextAuth ==
    \/ GetMe
    \/ GetPermissions
    \/ GetOrganization
    \/ \E permission \in AskedNames : HasPermission(permission)

SpecAuth == InitAuth /\ [][NextAuth]_vars

\* ------------------------------------------------------------------ C19
AuthRoutes == {"me", "permissions", "organization"}

\* A body that carries nothing but an error message.
ErrorOnly(r) == DOMAIN r.body = {"error"}

\* C19 (as stated): whenever the session has no authenticated user, the three
\* auth routes answer 401 {error: 'Not authenticated'} without data, and
\* data is returned only for an authenticated session.
C19_UnauthenticatedIs401 ==
    reply.call \in AuthRoutes =>
        /\ ~session.authenticated =>
              /\ reply.status = 401
              /\ ErrorOnly(reply)
              /\ reply.body.error = "Not authenticated"
        /\ ~ErrorOnly(reply) => session.authenticated

\* C19 (amended): without an authenticated user the three auth routes return
\* no data: they answer 401 {error: 'Not authenticated'}, except that
\* /api/auth/permissions and /api/auth/organization answer
\* 500 {error: 'Internal server error'} when the session lookup throws; data
\* is returned, with status 200, only for an authenticated session.
C19_UnauthenticatedGetsNoData ==
    reply.call \in AuthRoutes =>
        /\ ~session.authenticated =>
              /\ ErrorOnly(reply)
              /\ IF session.sdkThrows /\ reply.call # "me"
                 THEN reply.status = 500 /\ reply.body.error = "Internal server error"
                 ELSE reply.status = 401 /\ reply.body.error = "Not authenticated"
        /\ ~ErrorOnly(reply) => session.authenticated /\ reply.status = 200

C19_Witness ==
    /\ reply.call = "permissions"
    /\ ~session.authenticated
    /\ ~session.sdkThrows
    /\ reply.status = 401
    /\ reply.body = [error |-> "Not authenticated"]

\* ------------------------------------------------------------------ C20
\* The permissions list GET /api/auth/permissions reports for a session;
\* empty when the route answers with an error.
reportedPermissions(sess) ==
    IF permissionsRoute(sess).status = 200
    THEN permissionsRoute(sess).body.permissions
    ELSE {}

\* C20: hasPermission(p) is true exactly when p is in the permissions list
\* that GET /api/auth/permissions reports for the same session, and false
\* when there is no permissions object or the lookup throws.
C20_HasPermissionIsMembership ==
    reply.call = "hasPermission" =>
        /\ reply.result = (reply.permission \in reportedPermissions(session))
        /\ (session.sdkThrows \/ ~session.permissions.present) => ~reply.result

\* ========================================================== email library
\* Strings are sequences of characters.
GoodAddress == <<"a", "@", "b", ".", "c">>
NoDotAddress == <<"a", "@", "b">>
SpacedAddress == <<"a", " ", "@", "b", ".", "c">>
TwoAtAddress == <<"a", "@", "@", "b", ".", "c">>
Addresses == {GoodAddress, NoDotAddress, SpacedAddress, TwoAtAddress}

\* isValidEmail: /^[^\s@]+@[^\s@]+\.[^\s@]+$/
isValidEmail(email) ==
    \E a \in 1..Len(email), d \in 1..Len(email) :
        /\ email[a] = "@"
        /\ email[d] = "."
        /\ 1 < a
        /\ a + 1 < d
        /\ d < Len(email)
        /\ \A k \in 1..Len(email) : k # a => email[k] \notin {"@", " "}

\* String.prototype.trim().length
trimmedLength(str) ==
    IF \A k \in 1..Len(str) : str[k] = " "
    THEN 0
    ELSE LET first == CHOOSE k \in 1..Len(str) :
                          str[k] # " " /\ \A j \in 1..(k - 1) : str[j] = " "
             last == CHOOSE k \in 1..Len(str) :
                          str[k] # " " /\ \A j \in (k + 1)..Len(str) : str[j] = " "
         IN  last - first + 1

\* The keys an EmailConfig carries for its content, and whether their value
\* is truthy.
Contents == {"text", "emptyText", "react", "nullReact", "template", "emptyTemplate", "none"}

\* EmailConfig: an empty from, to, cc or bcc is an absent (falsy) one.
Configs ==
    [from : Addresses \cup {<<>>}, to : {GoodAddress, NoDotAddress, <<>>},
     subject : {<<>>, <<" ">>, <<"h", "i">>}, content : Contents,
     cc : {<<>>, SpacedAddress}, bcc : {<<>>, GoodAddress}]

\* validateEmailConfig: the error messages, in the order they are pushed.
validateEmailConfig(config) ==
    LET fromErrors ==
            IF config.from = <<>> THEN <<"From address is required">>
            ELSE IF ~isValidEmail(config.from)
                 THEN <<"From address is not a valid email format">>
                 ELSE <<>>
        toErrors ==
            IF config.to = <<>> THEN <<"To address is required">>
            ELSE IF ~isValidEmail(config.to) THEN <<"Invalid to address">> ELSE <<>>
        subjectErrors ==
            IF config.subject = <<>> \/ trimmedLength(config.subject) = 0
            THEN <<"Subject is required">>
            ELSE <<>>
        contentErrors ==
            CASE config.content = "text" -> <<>>
              [] config.content = "emptyText" -> <<"Either text or html content is required">>
              [] config.content = "react" -> <<>>
              [] config.content = "nullReact" -> <<"React component is required">>
              [] config.content = "template" -> <<>>
              [] config.content = "emptyTemplate" -> <<"Template identifier is required">>
              [] OTHER -> <<"Email must have text, html, react, or template content">>
        ccErrors ==
            IF config.cc # <<>> /\ ~isValidEmail(config.cc)
            THEN <<"Invalid CC address">> ELSE <<>>
        bccErrors ==
            IF config.bcc # <<>> /\ ~isValidEmail(config.bcc)
            THEN <<"Invalid BCC address">> ELSE <<>>
        errors == fromErrors \o toErrors \o subjectErrors \o contentErrors
                  \o ccErrors \o bccErrors
    IN  [isValid |-> Len(errors) = 0, errors |-> errors]

\* What the Resend client does with a send: "sent" (no error), "error"
\* (result.error set), "throws" (the call rejects), "noClient"
\* (getResendClient throws).
ResendBehaviours == {"sent", "error", "throws", "noClient"}

\* An EmailResult, with what the call did on the way: statusCode 0 is an
\* absent statusCode, resendCalls counts resend.emails.send calls, thrown
\* tells that the call threw instead of returning.
EmailResult(success, statusCode, details, resendCalls) ==
    [success |-> success, statusCode |-> statusCode, details |-> details,
     resendCalls |-> resendCalls, thrown |-> FALSE]

Thrown(resendCalls) ==
    [success |-> FALSE, statusCode |-> 0, details |-> <<>>,
     resendCalls |-> resendCalls, thrown |-> TRUE]

\* The try block of sendEmail.
sendEmailTry(config, resend) ==
    LET validation == validateEmailConfig(config)
    IN  IF ~validation.isValid
        THEN EmailResult(FALSE, 400, validation.errors, 0)
        ELSE CASE resend = "noClient" -> Thrown(0)
               [] resend = "throws" -> Thrown(1)
               [] resend = "error" -> EmailResult(FALSE, 0, <<>>, 1)
               [] OTHER -> EmailResult(TRUE, 0, <<>>, 1)

\* sendEmail: the try block; its catch turns a throw into {success: false}.
sendEmailRethrowing(config, resend) == sendEmailTry(config, resend)
sendEmail(config, resend) ==
    LET attempt == sendEmailTry(config, resend)
    IN  IF attempt.thrown
        THEN EmailResult(FALSE, 0, <<>>, attempt.resendCalls)
        ELSE attempt

\* One sendEmail call per behaviour, on a config and a Resend behaviour
\* drawn at the start.
InitSendEmail ==
    /\ sent \in [called : {FALSE}, config : Configs, resend : ResendBehaviours]
    /\ batchConfig = NoBatch
    /\ loop = NoLoop
    /\ inFlight = {}
    /\ settled = <<>>
    /\ returned = NoReturn
    /\ post = NoPost
    /\ RegistrationIdle
    /\ SweeperIdle
    /\ LimiterIdle
    /\ AuthIdle
    /\ HookIdle
    /\ ClientIdle

SendEmail ==
    /\ ~sent.called
    /\ sent' = [called |-> TRUE, config |-> sent.config, resend |-> sent.resend,
                result |-> sendEmail(sent.config, sent.resend)]
    /\ UNCHANGED <<batchConfig, loop, inFlight, settled, returned, post>>
    /\ UNCHANGED <<registrationVars, sweeperVars, limiterVars, authVars, hookVars, clientVars>>

NextSendEmail == SendEmail

SpecSendEmail == InitSendEmail /\ [][NextSendEmail]_vars

\* --------------------------------------------------------- sendBatchEmails
MaxEmails == 6
MaxConcurrency == 2
DefaultMaxConcurrency == 5
DefaultBatchDelay == 100

\* The emails of a batch: one that Resend accepts and one that it refuses.
PlainConfig ==
    [from |-> GoodAddress, to |-> GoodAddress, subject |-> <<"h", "i">>,
     content |-> "text", cc |-> <<>>, bcc |-> <<>>]
BatchEmails == {[config |-> PlainConfig, resend |-> "sent"],
                [config |-> PlainConfig, resend |-> "error"]}

\* BatchEmailConfig as handleSendBatchEmails builds it: at least one email,
\* maxConcurrency and batchDelay positive when given, 0 standing for a key
\* that is not given.
BatchConfigs ==
    [emails : UNION {[1..n -> BatchEmails] : n \in 1..MaxEmails},
     maxConcurrency : 0..MaxConcurrency,
     batchDelay : {0, 250}]

\* const { emails, maxConcurrency = 5, batchDelay = 100 } = config
maxConcurrencyOf(config) ==
    IF config.maxConcurrency = 0 THEN DefaultMaxConcurrency ELSE config.maxConcurrency
batchDelayOf(config) ==
    IF config.batchDelay = 0 THEN DefaultBatchDelay ELSE config.batchDelay

\* emails.slice(i, i + maxConcurrency), as the positions (from 0) it holds.
sliceEverything(len, i, maxConcurrency) == {g \in 0..(len - 1) : i <= g}
slice(len, i, maxConcurrency) == {g \in 0..(len - 1) : i <= g /\ g < i + maxConcurrency}

\* const globalIndex = i + batchIndex
globalIndexWithinBatch(i, batchIndex) == batchIndex
globalIndex(i, batchIndex) == i + batchIndex

InitBatch ==
    /\ batchConfig \in BatchConfigs
    /\ loop = [at |-> "loop", i |-> 0, results |-> <<>>, successful |-> 0, failed |-> 0]
    /\ inFlight = {}
    /\ settled = <<>>
    /\ returned = NoReturn
    /\ sent = NoSend
    /\ post = NoPost
    /\ RegistrationIdle
    /\ SweeperIdle
    /\ LimiterIdle
    /\ AuthIdle
    /\ HookIdle
    /\ ClientIdle

\* One turn of the for loop up to Promise.all: batch.map starts the
\* sendEmail call of every email of the slice.
StartBatch ==
    /\ loop.at = "loop"
    /\ loop.i < Len(batchConfig.emails)
    /\ inFlight' = slice(Len(batchConfig.emails), loop.i, maxConcurrencyOf(batchConfig))
    /\ settled' = <<>>
    /\ loop' = [loop EXCEPT !.at = "await"]
    /\ UNCHANGED <<batchConfig, returned, sent, post>>
    /\ UNCHANGED <<registrationVars, sweeperVars, limiterVars, authVars, hookVars, clientVars>>

\* The sendEmail call of position g completes and its callback counts it.
Complete(g) ==
    /\ g \in inFlight
    /\ LET email == batchConfig.emails[g + 1]
           result == sendEmail(email.config, email.resend)
       IN  /\ loop' = IF result.success
                      THEN [loop EXCEPT !.successful = @ + 1]
                      ELSE [loop EXCEPT !.failed = @ + 1]
           /\ settled' = settled @@
                  (g :> [index |-> globalIndex(loop.i, g - loop.i), result |-> result])
    /\ inFlight' = inFlight \ {g}
    /\ UNCHANGED <<batchConfig, returned, sent, post>>
    /\ UNCHANGED <<registrationVars, sweeperVars, limiterVars, authVars, hookVars, clientVars>>

\* Promise.all resolves, in the order of the batch, and the results are
\* pushed; then the delay starts unless this was the last batch.
JoinBatch ==
    /\ loop.at = "await"
    /\ inFlight = {}
    /\ LET n == Cardinality(DOMAIN settled)
           batchResults == [k \in 1..n |-> settled[loop.i + k - 1]]
           more == loop.i + maxConcurrencyOf(batchConfig) < Len(batchConfig.emails)
       IN  loop' = IF more /\ batchDelayOf(batchConfig) > 0
                   THEN [loop EXCEPT !.at = "delay", !.results = @ \o batchResults]
                   ELSE [loop EXCEPT !.at = "loop", !.results = @ \o batchResults,
                                     !.i = @ + maxConcurrencyOf(batchConfig)]
    /\ UNCHANGED <<batchConfig, inFlight, settled, returned, sent, post>>
    /\ UNCHANGED <<registrationVars, sweeperVars, limiterVars, authVars, hookVars, clientVars>>

\* The setTimeout of the delay fires.
AfterDelay ==
    /\ loop.at = "delay"
    /\ loop' = [loop EXCEPT !.at = "loop", !.i = @ + maxConcurrencyOf(batchConfig)]
    /\ UNCHANGED <<batchConfig, inFlight, settled, returned, sent, post>>
    /\ UNCHANGED <<registrationVars, sweeperVars, limiterVars, authVars, hookVars, clientVars>>

ReturnBatch ==
    /\ loop.at = "loop"
    /\ loop.i >= Len(batchConfig.emails)
    /\ returned' = [total |-> Len(batchConfig.emails), successful |-> loop.successful,
                    failed |-> loop.failed, results |-> loop.results]
    /\ loop' = [loop EXCEPT !.at = "returned"]
    /\ UNCHANGED <<batchConfig, inFlight, settled, sent, post>>
    /\ UNCHANGED <<registrationVars, sweeperVars, limiterVars, authVars, hookVars, clientVars>>

NextBatch ==
    \/ StartBatch
    \/ \E g \in inFlight : Complete(g)
    \/ JoinBatch
    \/ AfterDelay
    \/ ReturnBatch

SpecBatch == InitBatch /\ [][NextBatch]_vars

\* ------------------------------------------------------------------ C21
\* Positions whose sendEmail call has completed, and has been started.
completedSends == DOMAIN settled \cup (0..(Len(loop.results) - 1))
startedSends == inFlight \cup completedSends

\* The batch a position belongs to.
batchNumber(g) == g \div maxConcurrencyOf(batchConfig)

\* C21: at no moment are more than maxConcurrency (default 5) sendEmail
\* calls in flight, and no email of a later batch is started before every
\* email of the previous batches has completed.
C21_BoundedConcurrency ==
    loop.at # "idle" =>
        /\ Cardinality(inFlight) <= maxConcurrencyOf(batchConfig)
        /\ \A g \in startedSends, h \in 0..(Len(batchConfig.emails) - 1) :
               batchNumber(h) < batchNumber(g) => h \in completedSends /\ h \notin inFlight

C21_Witness ==
    /\ batchConfig.maxConcurrency = 0
    /\ loop.at = "await"
    /\ loop.i = DefaultMaxConcurrency
    /\ inFlight # {}
    /\ Len(loop.results) = DefaultMaxConcurrency

\* ------------------------------------------------------------------ C22
\* C22: for every input and every completion order, sendBatchEmails returns
\* total = emails.length, successful + failed = total and a results list
\* with one entry per email, in ascending order of index, the entry at
\* position k carrying index k and the result of that email.
C22_BatchResultShape ==
    loop.at = "returned" =>
        /\ returned.total = Len(batchConfig.emails)
        /\ returned.successful + returned.failed = returned.total
        /\ Len(returned.results) = returned.total
        /\ \A k \in 1..Len(returned.results) :
               /\ returned.results[k].index = k - 1
               /\ returned.results[k].result =
                      sendEmail(batchConfig.emails[k].config, batchConfig.emails[k].resend)
        /\ returned.successful =
               Cardinality({k \in 1..Len(batchConfig.emails) :
                               batchConfig.emails[k].resend = "sent"})

C22_Witness ==
    /\ loop.at = "returned"
    /\ returned.total > 2 * maxConcurrencyOf(batchConfig)
    /\ returned.successful > 0
    /\ returned.failed > 0

\* ------------------------------------------------------------------ C23
\* C23: sendEmail never throws; a config rejected by validateEmailConfig
\* yields {success: false} with statusCode 400 and no call to the Resend
\* client; a Resend error or a thrown exception yields {success: false};
\* {success: true} is returned only when Resend reported no error.
C23_FailuresAreValues ==
    sent.called =>
        LET rejected == ~validateEmailConfig(sent.config).isValid
        IN  /\ ~sent.result.thrown
            /\ rejected =>
                  /\ ~sent.result.success
                  /\ sent.result.statusCode = 400
                  /\ sent.result.resendCalls = 0
            /\ sent.resend # "sent" => ~sent.result.success
            /\ sent.result.success => ~rejected /\ sent.resend = "sent"

C23_Witness ==
    /\ sent.called
    /\ validateEmailConfig(sent.config).isValid
    /\ sent.resend = "throws"
    /\ ~sent.result.success
    /\ sent.result.resendCalls = 1

\* ===================================================== email POST handler
\* The two windows of checkRateLimit, scaled: the per-minute check uses
\* WindowMs and MaxRequests, the per-hour check the two below.
HourWindowMs == 5
MaxRequestsPerHour == 3

\* `${clientId}:hour`
hourKey(clientId) == IF clientId = "ip:a" THEN "ip:a:hour" ELSE "ip:b:hour"

\* The body of a request: not JSON at all, JSON with an unknown action, or
\* JSON with a known action that the action's schema rejects or accepts.
Bodies == {"not-json", "unknown-action", "send-invalid", "send", "send-template",
           "send-batch", "validate"}
RejectedBodies == {"not-json", "unknown-action", "send-invalid"}

\* The requests of one client; the Resend behaviour matters to the single
\* sends only.
PostClients == {"ip:a"}
PostRequests ==
    {req \in [client : PostClients, configured : BOOLEAN, body : Bodies,
              resend : {"sent", "error"}] :
        req.body \notin {"send", "send-template"} => req.resend = "sent"}

LimiterKeys == PostClients \cup {hourKey(k) : k \in PostClients}

\* checkRateLimit: the per-minute check, then the per-hour one; either refusal
\* refuses the request.  reqs is the limiter's map.
checkRateLimit(reqs, clientId, nowMs) ==
    LET minute == isAllowed(reqs[clientId], nowMs, WindowMs, MaxRequests)
        afterMinute == [reqs EXCEPT ![clientId] = minute.kept]
        hour == isAllowed(afterMinute[hourKey(clientId)], nowMs, HourWindowMs,
                          MaxRequestsPerHour)
    IN  IF ~minute.allowed
        THEN [allowed |-> FALSE, requests |-> reqs]
        ELSE IF ~hour.allowed
             THEN [allowed |-> FALSE, requests |-> afterMinute]
             ELSE [allowed |-> TRUE,
                   requests |-> [afterMinute EXCEPT ![hourKey(clientId)] = hour.kept]]

\* What the handler does with a body it got past the limiter: status and the
\* library function it reached.
handleBody(req) ==
    CASE req.body \in RejectedBodies ->
             [status |-> 400, reached |-> "none"]
      [] req.body \in {"send", "send-template"} ->
             LET result == sendEmail(PlainConfig, req.resend)
             IN  [status |-> IF result.success THEN 200
                             ELSE IF result.statusCode # 0 THEN result.statusCode
                             ELSE 500,
                  reached |-> "sendEmail"]
      [] req.body = "send-batch" ->
             [status |-> 200, reached |-> "sendBatchEmails"]
      [] OTHER ->
             [status |-> 200, reached |-> "validateEmailConfig"]

\* POST: configuration check, rate limit, then the body.
POSTParsingFirst(req, reqs, nowMs) ==
    IF ~req.configured
    THEN [status |-> 500, reached |-> "none", requests |-> reqs]
    ELSE IF handleBody(req).status = 400
         THEN handleBody(req) @@ [requests |-> reqs]
         ELSE LET limit == checkRateLimit(reqs, req.client, nowMs)
              IN  IF ~limit.allowed
                  THEN [status |-> 429, reached |-> "none", requests |-> limit.requests]
                  ELSE handleBody(req) @@ [requests |-> limit.requests]
POST(req, reqs, nowMs) ==
    IF ~req.configured
    THEN [status |-> 500, reached |-> "none", requests |-> reqs]
    ELSE LET limit == checkRateLimit(reqs, req.client, nowMs)
         IN  IF ~limit.allowed
             THEN [status |-> 429, reached |-> "none", requests |-> limit.requests]
             ELSE handleBody(req) @@ [requests |-> limit.requests]

InitPost ==
    /\ clock = 0
    /\ requests = [k \in LimiterKeys |-> <<>>]
    /\ allowedLog = <<>>
    /\ lastAnswer = NoAnswer
    /\ post = NoPost
    /\ batchConfig = NoBatch
    /\ loop = NoLoop
    /\ inFlight = {}
    /\ settled = <<>>
    /\ returned = NoReturn
    /\ sent = NoSend
    /\ RegistrationIdle
    /\ SweeperIdle
    /\ AuthIdle
    /\ HookIdle
    /\ ClientIdle

Post(req) ==
    /\ LET res == POST(req, requests, clock)
       IN  /\ requests' = res.requests
           /\ post' = [client |-> req.client, configured |-> req.configured,
                       rejected |-> handleBody(req).status = 400,
                       status |-> res.status, reached |-> res.reached]
    /\ UNCHANGED <<clock, allowedLog, lastAnswer>>
    /\ UNCHANGED <<batchConfig, loop, inFlight, settled, returned, sent>>
    /\ UNCHANGED <<registrationVars, sweeperVars, authVars, hookVars, clientVars>>

NextPost ==
    \/ Tick
    \/ \E req \in PostRequests : Post(req)

SpecPost == InitPost /\ [][NextPost]_vars

\* ------------------------------------------------------------------ C24
\* The number of kept times that lie inside the window.
inWindow(kept, nowMs, windowMs) ==
    Cardinality({k \in 1..Len(kept) : nowMs - kept[k] < windowMs})

\* The client has used up its per-minute or its per-hour quota.
overLimit(reqs, clientId, nowMs) ==
    \/ inWindow(reqs[clientId], nowMs, WindowMs) >= MaxRequests
    \/ inWindow(reqs[hourKey(clientId)], nowMs, HourWindowMs) >= MaxRequestsPerHour

\* The step counts one more request in both windows of the client.
consumesQuota(clientId) ==
    /\ inWindow(requests'[clientId], clock, WindowMs)
           = inWindow(requests[clientId], clock, WindowMs) + 1
    /\ inWindow(requests'[hourKey(clientId)], clock, HourWindowMs)
           = inWindow(requests[hourKey(clientId)], clock, HourWindowMs) + 1

\* C24 (as stated): a request over the limit gets 429 and reaches neither
\* sendEmail nor sendBatchEmails; every request that is within the limit
\* consumes quota, also when its body is then rejected.
C24_RateLimitBeforeBody ==
    [][clock' = clock =>
          IF overLimit(requests, post'.client, clock)
          THEN post'.status = 429 /\ post'.reached = "none"
          ELSE consumesQuota(post'.client)]_vars

\* C24 (amended): once the Resend configuration check has passed, a request
\* over the limit gets 429 and reaches neither sendEmail nor sendBatchEmails,
\* and every request within the limit consumes quota, also when its body is
\* then rejected with 400; when the configuration check fails the request
\* gets 500 before the rate limit is looked at and consumes no quota.
C24_RateLimitBeforeBodyWhenConfigured ==
    [][clock' = clock =>
          IF ~post'.configured
          THEN post'.status = 500 /\ post'.reached = "none" /\ requests' = requests
          ELSE IF overLimit(requests, post'.client, clock)
               THEN post'.status = 429 /\ post'.reached = "none"
               ELSE /\ consumesQuota(post'.client)
                    /\ post'.status # 429
                    /\ post'.rejected => post'.status = 400 /\ post'.reached = "none"]_vars

\* A request whose body would be rejected is refused for its rate instead.
C24_Witness ==
    /\ post.status = 429
    /\ post.rejected
    /\ post.configured
    /\ inWindow(requests["ip:a"], clock, WindowMs) >= MaxRequests

\* ======================================================= pre-push checker
\* The checks of runAllChecks, in the order of the array; fixCommand "" is
\* an absent one.
Checks ==
    << [name |-> "TypeScript Type Check", command |-> "type-check",
        canFix |-> FALSE, fixCommand |-> "", optional |-> FALSE],
       [name |-> "ESLint Code Quality", command |-> "lint",
        canFix |-> TRUE, fixCommand |-> "lint:fix", optional |-> FALSE],
       [name |-> "Prettier Formatting", command |-> "format:check",
        canFix |-> TRUE, fixCommand |-> "format", optional |-> FALSE],
       [name |-> "Project Structure", command |-> "validate-structure",
        canFix |-> FALSE, fixCommand |-> "", optional |-> FALSE],
       [name |-> "Database Schema", command |-> "db:verify",
        canFix |-> FALSE, fixCommand |-> "", optional |-> TRUE],
       [name |-> "Unit Tests", command |-> "test --run",
        canFix |-> FALSE, fixCommand |-> "", optional |-> FALSE] >>

CheckCommands == {Checks[k].command : k \in 1..Len(Checks)}
FixCommands == {"lint:fix", "format"}

\* A run's environment: --fix, whether DATABASE_URL and DIRECT_URL are both
\* set, and for every command whether it exits with 0: the check commands on
\* their first run and on their re-run after a fix, and the fix commands.
Environments ==
    [autoFix : BOOLEAN, databaseEnv : BOOLEAN,
     succeeds : [CheckCommands -> BOOLEAN],
     fixSucceeds : [FixCommands -> BOOLEAN],
     rerunSucceeds : [{"lint", "format:check"} -> BOOLEAN]]

\* The optional check is skipped when a database variable is missing.
skipped(check, e) == check.optional /\ ~e.databaseEnv

\* The auto-fix of a failed check is attempted.
fixAttempted(check, e) == e.autoFix /\ check.canFix /\ check.fixCommand # ""

\* The failed check is repaired: its fix command succeeds and it passes when
\* it is run again.
repaired(check, e) ==
    /\ fixAttempted(check, e)
    /\ e.fixSucceeds[check.fixCommand]
    /\ e.rerunSucceeds[check.command]

\* result.passed once the iteration is over.
passedAfter(check, e) == e.succeeds[check.command] \/ repaired(check, e)

\* allPassed once the iteration is over.
allPassedNeverRestored(check, e, allPassed) ==
    IF e.succeeds[check.command] THEN allPassed ELSE FALSE
allPassedAfter(check, e, allPassed) ==
    IF e.succeeds[check.command]
    THEN allPassed
    ELSE IF repaired(check, e) THEN TRUE ELSE FALSE

\* The loop is left after the iteration.
breaksNever(check, e) == FALSE
breaks(check, e) == ~passedAfter(check, e) /\ ~check.optional

\* The commands the iteration runs, in order.
commandsRun(check, e) ==
    <<[command |-> check.command, as |-> "check"]>>
    \o (IF ~e.succeeds[check.command] /\ fixAttempted(check, e)
        THEN <<[command |-> check.fixCommand, as |-> "fix"]>>
             \o (IF e.fixSucceeds[check.fixCommand]
                 THEN <<[command |-> check.command, as |-> "recheck"]>>
                 ELSE <<>>)
        ELSE <<>>)

InitChecker ==
    /\ env \in Environments
    /\ checker = [at |-> "loop", k |-> 1, results |-> <<>>, allPassed |-> TRUE,
                  commands |-> <<>>, returned |-> FALSE]
    /\ RegistrationIdle
    /\ SweeperIdle
    /\ LimiterIdle
    /\ AuthIdle
    /\ MailIdle
    /\ ClientIdle

\* An iteration that skips the optional check.
SkipCheck ==
    /\ checker.at = "loop"
    /\ checker.k <= Len(Checks)
    /\ skipped(Checks[checker.k], env)
    /\ checker' = [checker EXCEPT
           !.k = @ + 1,
           !.results = Append(@, [name |-> Checks[checker.k].name, passed |-> TRUE,
                                  skipped |-> TRUE])]
    /\ UNCHANGED env
    /\ UNCHANGED <<registrationVars, sweeperVars, limiterVars, authVars, mailVars, clientVars>>

\* An iteration that runs the check, with its auto-fix and re-run.
RunCheck ==
    /\ checker.at = "loop"
    /\ checker.k <= Len(Checks)
    /\ ~skipped(Checks[checker.k], env)
    /\ LET check == Checks[checker.k]
       IN  checker' = [checker EXCEPT
               !.at = IF breaks(check, env) THEN "summary" ELSE "loop",
               !.k = @ + 1,
               !.results = Append(@, [name |-> check.name,
                                      passed |-> passedAfter(check, env),
                                      skipped |-> FALSE]),
               !.allPassed = allPassedAfter(check, env, @),
               !.commands = @ \o commandsRun(check, env)]
    /\ UNCHANGED env
    /\ UNCHANGED <<registrationVars, sweeperVars, limiterVars, authVars, mailVars, clientVars>>

\* printSummary and return allPassed.
ReturnAllPassed ==
    /\ \/ checker.at = "summary"
       \/ checker.at = "loop" /\ checker.k > Len(Checks)
    /\ checker' = [checker EXCEPT !.at = "done", !.returned = checker.allPassed]
    /\ UNCHANGED env
    /\ UNCHANGED <<registrationVars, sweeperVars, limiterVars, authVars, mailVars, clientVars>>

NextChecker ==
    \/ SkipCheck
    \/ RunCheck
    \/ ReturnAllPassed

SpecChecker == InitChecker /\ [][NextChecker]_vars

\* ------------------------------------------------------------------ C25
\* The check commands in the order type-check, lint, format check, structure
\* validation, database schema, unit tests.
FixedOrder == <<"type-check", "lint", "format:check", "validate-structure",
                "db:verify", "test --run">>

\* The commands run as a check's first run, in the order they were run.
firstRuns ==
    LET runs == SelectSeq(checker.commands, LAMBDA c : c.as = "check")
    IN  [k \in 1..Len(runs) |-> runs[k].command]

\* The check at position k was run, failed, and --fix did not repair it.
failedForGood(k) ==
    /\ k <= Len(checker.results)
    /\ ~checker.results[k].skipped
    /\ ~env.succeeds[FixedOrder[k]]
    /\ ~(/\ env.autoFix
         /\ FixedOrder[k] \in {"lint", "format:check"}
         /\ env.fixSucceeds[IF FixedOrder[k] = "lint" THEN "lint:fix" ELSE "format"]
         /\ env.rerunSucceeds[FixedOrder[k]])

\* C25: the checks run in the fixed order, and when a check other than the
\* optional database one fails and is not repaired by auto-fix, no later
\* check is run and the result is false.
C25_FixedOrderStopOnFailure ==
    checker.at # "idle" =>
        /\ \A k \in 1..Len(checker.results) :
               Checks[k].command = FixedOrder[k] /\ checker.results[k].name = Checks[k].name
        /\ firstRuns = SelectSeq(SubSeq(FixedOrder, 1, Len(checker.results)),
                                 LAMBDA c : c # "db:verify" \/ env.databaseEnv)
        /\ checker.at = "done" =>
               /\ \A k \in 1..Len(FixedOrder) :
                      failedForGood(k) /\ FixedOrder[k] # "db:verify" =>
                          /\ Len(checker.results) = k
                          /\ ~checker.returned
               /\ (\A k \in 1..Len(FixedOrder) :
                      ~(failedForGood(k) /\ FixedOrder[k] # "db:verify"))
                      => Len(checker.results) = Len(FixedOrder)

\* Lint is repaired by --fix, the format check fails for good: nothing runs
\* after it.
C25_Witness ==
    /\ checker.at = "done"
    /\ env.autoFix
    /\ Len(checker.results) = 3
    /\ checker.results[2].passed
    /\ ~env.succeeds["lint"]
    /\ ~checker.results[3].passed
    /\ ~checker.returned

\* ------------------------------------------------------------------ C26
\* C26: runAllChecks returns true if and only if every check result it
\* recorded has passed = true, with and without --fix, and with the database
\* check skipped (recorded as passed) or run.
C26_TrueIffAllRecordedPassed ==
    checker.at = "done" =>
        /\ checker.returned =
               (\A k \in 1..Len(checker.results) : checker.results[k].passed)
        /\ \A k \in 1..Len(checker.results) :
               checker.results[k].skipped =>
                   checker.results[k].passed /\ Checks[k].optional /\ ~env.databaseEnv

\* A run with --fix that repairs lint, skips the database check and returns
\* true.
C26_Witness ==
    /\ checker.at = "done"
    /\ checker.returned
    /\ env.autoFix
    /\ ~env.succeeds["lint"]
    /\ ~env.databaseEnv
    /\ Len(checker.results) = Len(Checks)

\* ============================================================== AuthGuard
\* SessionData: user and error are "null" when null.
FetchErrors == {"Authentication check failed: 500", "Failed to fetch"}
SessionDatas ==
    [user : {"null"} \cup Accounts, isAuthenticated : BOOLEAN, isLoading : BOOLEAN,
     error : {"null"} \cup FetchErrors, permissions : SUBSET PermissionNames,
     organization : {NoOrganization} \cup [present : {TRUE}, orgCode : {"org_1"},
                                           orgName : {"Org One"}]]

\* The props of AuthGuard: redirectTo and fallback are given or not.
GuardProps ==
    [requirePermissions : SUBSET PermissionNames, requireAllPermissions : BOOLEAN,
     showFallback : BOOLEAN, redirectTo : BOOLEAN, fallback : BOOLEAN]

\* useAuthorization
hasAllPermissions(sess, permissions) == \A p \in permissions : p \in sess.permissions
hasAnyPermission(sess, permissions) == \E p \in permissions : p \in sess.permissions

hasAnyOfRequiredPermissions(sess, props) ==
    hasAnyPermission(sess, props.requirePermissions)
hasRequiredPermissions(sess, props) ==
    IF props.requireAllPermissions
    THEN hasAllPermissions(sess, props.requirePermissions)
    ELSE hasAnyPermission(sess, props.requirePermissions)

\* What a branch shows when it shows the fallback or its own default.
fallbackOr(props, default) == IF props.fallback THEN "fallback" ELSE default

\* AuthGuard: what it returns, and whether it called router.push.
AuthGuard(sess, props) ==
    IF sess.isLoading
    THEN [output |-> fallbackOr(props, "spinner"), redirected |-> FALSE]
    ELSE IF sess.error # "null"
    THEN [output |-> fallbackOr(props, "error-alert"), redirected |-> FALSE]
    ELSE IF ~sess.isAuthenticated
    THEN IF props.redirectTo
         THEN [output |-> "null", redirected |-> TRUE]
         ELSE IF ~props.showFallback
              THEN [output |-> "null", redirected |-> FALSE]
              ELSE [output |-> fallbackOr(props, "sign-in-prompt"), redirected |-> FALSE]
    ELSE IF props.requirePermissions # {} /\ ~hasRequiredPermissions(sess, props)
    THEN IF ~props.showFallback
         THEN [output |-> "null", redirected |-> FALSE]
         ELSE [output |-> fallbackOr(props, "permission-alert"), redirected |-> FALSE]
    ELSE [output |-> "children", redirected |-> FALSE]

\* One render per behaviour, of a session state and props drawn at the start.
InitGuard ==
    /\ sessionData \in {sess \in SessionDatas : sess.organization = NoOrganization}
    /\ rendered \in [output : {"none"}, props : GuardProps]
    /\ fetches = <<>>
    /\ RegistrationIdle
    /\ SweeperIdle
    /\ LimiterIdle
    /\ AuthIdle
    /\ MailIdle
    /\ HookIdle

Render ==
    /\ rendered.output = "none"
    /\ rendered' = [props |-> rendered.props] @@ AuthGuard(sessionData, rendered.props)
    /\ UNCHANGED <<sessionData, fetches>>
    /\ UNCHANGED <<registrationVars, sweeperVars, limiterVars, authVars, mailVars, hookVars>>

NextGuard == Render

SpecGuard == InitGuard /\ [][NextGuard]_vars

\* ------------------------------------------------------------------ C27
\* C27: AuthGuard renders its children exactly when the session is not
\* loading, has no error, is authenticated and, if requirePermissions is
\* non-empty, holds all of them (requireAllPermissions true) or at least one
\* of them (requireAllPermissions false).
C27_ChildrenOnlyWhenAuthorized ==
    rendered.output # "none" =>
        (rendered.output = "children" <=>
            /\ ~sessionData.isLoading
            /\ sessionData.error = "null"
            /\ sessionData.isAuthenticated
            /\ \/ rendered.props.requirePermissions = {}
               \/ /\ rendered.props.requireAllPermissions
                  /\ rendered.props.requirePermissions \subseteq sessionData.permissions
               \/ /\ ~rendered.props.requireAllPermissions
                  /\ rendered.props.requirePermissions \cap sessionData.permissions # {})

\* An authenticated session holding one of the two required permissions is
\* refused under requireAllPermissions.
C27_Witness ==
    /\ rendered.output = "permission-alert"
    /\ sessionData.isAuthenticated
    /\ rendered.props.requireAllPermissions
    /\ rendered.props.requirePermissions = PermissionNames
    /\ sessionData.permissions = {"events.read"}

\* ======================================================== SessionProvider
MaxFetches == 2

\* The server side of the browser's session: signed out or signed in, with
\* the Kinde session lookup working or throwing.
SignedOut ==
    [authenticated |-> FALSE, user |-> "null", permissions |-> NoPermissions,
     organization |-> NoOrganization, sdkThrows |-> FALSE]
SignedIn ==
    [authenticated |-> TRUE, user |-> "kp_1",
     permissions |-> [present |-> TRUE, permissions |-> {"events.read"},
                      orgCode |-> "org_1"],
     organization |-> [present |-> TRUE, orgCode |-> "org_1", orgName |-> "Org One"],
     sdkThrows |-> FALSE]
ProviderSessions ==
    {[s EXCEPT !.sdkThrows = t] : s \in {SignedOut, SignedIn}, t \in BOOLEAN}

\* A fetch() that rejects, and a response that has not arrived.
NetworkFailure == [status |-> 0, body |-> [error |-> "Failed to fetch"]]
Pending == [status |-> -1, body |-> [error |-> "pending"]]

\* The default initial session (no initialSession prop).
DefaultSession ==
    [user |-> "null", isAuthenticated |-> FALSE, isLoading |-> TRUE, error |-> "null",
     permissions |-> {}, organization |-> NoOrganization]

\* setSessionData((prev) => ({ ...prev, isLoading: true, error: null }))
loadingStateDroppingUser(prev) ==
    [prev EXCEPT !.isLoading = TRUE, !.error = "null", !.user = "null"]
loadingState(prev) == [prev EXCEPT !.isLoading = TRUE, !.error = "null"]

\* The three states fetchSession ends in.
authenticatedState(me, permissionsRes, orgRes) ==
    [user |-> me.body.id, isAuthenticated |-> TRUE, isLoading |-> FALSE,
     error |-> "null",
     permissions |-> IF permissionsRes.status = 200
                     THEN permissionsRes.body.permissions ELSE {},
     organization |-> IF orgRes.status = 200
                      THEN orgRes.body.organization ELSE NoOrganization]

unauthenticatedState ==
    [user |-> "null", isAuthenticated |-> FALSE, isLoading |-> FALSE, error |-> "null",
     permissions |-> {}, organization |-> NoOrganization]

failedState(message) ==
    [user |-> "null", isAuthenticated |-> FALSE, isLoading |-> FALSE, error |-> message,
     permissions |-> {}, organization |-> NoOrganization]

\* A fetchSession call that has just sent its request to /api/auth/me.
newFetch(trigger) ==
    [trigger |-> trigger, at |-> "me", me |-> Pending, permissionsRes |-> Pending,
     orgRes |-> Pending, produced |-> NoSessionData]

InitProvider ==
    /\ sessionData = DefaultSession
    /\ fetches = <<>>
    /\ rendered = NoRender
    /\ session \in ProviderSessions
    /\ reply = NoReply
    /\ RegistrationIdle
    /\ SweeperIdle
    /\ LimiterIdle
    /\ MailIdle
    /\ HookIdle

\* The initial fetch of the mount effect.
InitialFetch ==
    /\ fetches = <<>>
    /\ sessionData' = loadingState(sessionData)
    /\ fetches' = Append(fetches, newFetch("mount"))
    /\ UNCHANGED <<rendered, session, reply>>
    /\ UNCHANGED <<registrationVars, sweeperVars, limiterVars, mailVars, hookVars>>

\* The refresh interval fires.
IntervalRefresh ==
    /\ fetches # <<>>
    /\ Len(fetches) < MaxFetches
    /\ sessionData.isAuthenticated
    /\ ~sessionData.isLoading
    /\ sessionData' = loadingState(sessionData)
    /\ fetches' = Append(fetches, newFetch("interval"))
    /\ UNCHANGED <<rendered, session, reply>>
    /\ UNCHANGED <<registrationVars, sweeperVars, limiterVars, mailVars, hookVars>>

\* Another tab writes kinde-auth-state-change to the storage.
StorageChange ==
    /\ fetches # <<>>
    /\ Len(fetches) < MaxFetches
    /\ sessionData' = loadingState(sessionData)
    /\ fetches' = Append(fetches, newFetch("storage"))
    /\ UNCHANGED <<rendered, session, reply>>
    /\ UNCHANGED <<registrationVars, sweeperVars, limiterVars, mailVars, hookVars>>

\* The tab becomes visible.
VisibilityChange ==
    /\ fetches # <<>>
    /\ Len(fetches) < MaxFetches
    /\ sessionData.isAuthenticated
    /\ sessionData' = loadingState(sessionData)
    /\ fetches' = Append(fetches, newFetch("visibility"))
    /\ UNCHANGED <<rendered, session, reply>>
    /\ UNCHANGED <<registrationVars, sweeperVars, limiterVars, mailVars, hookVars>>

\* refresh() of the context.
Refresh ==
    /\ fetches # <<>>
    /\ Len(fetches) < MaxFetches
    /\ sessionData' = loadingState(sessionData)
    /\ fetches' = Append(fetches, newFetch("refresh"))
    /\ UNCHANGED <<rendered, session, reply>>
    /\ UNCHANGED <<registrationVars, sweeperVars, limiterVars, mailVars, hookVars>>

\* clearError() of the context.
ClearError ==
    /\ fetches # <<>>
    /\ sessionData' = [sessionData EXCEPT !.error = "null"]
    /\ UNCHANGED <<fetches, rendered, session, reply>>
    /\ UNCHANGED <<registrationVars, sweeperVars, limiterVars, mailVars, hookVars>>

\* /api/auth/me is answered for fetch f: by the route, or the route crashes
\* into its catch, or the request fails on the network.
AnswerMe(f, outcome) ==
    /\ fetches[f].at = "me"
    /\ fetches' = [fetches EXCEPT
           ![f].at = "meAnswered",
           ![f].me = CASE outcome = "route" -> meRoute(session)
                       [] outcome = "crash" -> InternalServerError
                       [] OTHER -> NetworkFailure]
    /\ UNCHANGED <<sessionData, rendered, session, reply>>
    /\ UNCHANGED <<registrationVars, sweeperVars, limiterVars, mailVars, hookVars>>

\* fetchSession f resumes with the response of /api/auth/me.
ReceiveMe(f) ==
    /\ fetches[f].at = "meAnswered"
    /\ LET me == fetches[f].me
       IN  IF me.status = 200
           THEN /\ fetches' = [fetches EXCEPT ![f].at = "extras"]
                /\ UNCHANGED sessionData
           ELSE LET state == IF me.status = 401
                             THEN unauthenticatedState
                             ELSE IF me.status = 0
                                  THEN failedState("Failed to fetch")
                                  ELSE failedState("Authentication check failed: 500")
                IN  /\ sessionData' = state
                    /\ fetches' = [fetches EXCEPT ![f].at = "done", ![f].produced = state]
    /\ UNCHANGED <<rendered, session, reply>>
    /\ UNCHANGED <<registrationVars, sweeperVars, limiterVars, mailVars, hookVars>>

\* /api/auth/permissions and /api/auth/organization are answered for fetch f.
AnswerExtras(f, permissionsFail, orgFail) ==
    /\ fetches[f].at = "extras"
    /\ fetches' = [fetches EXCEPT
           ![f].at = "extrasAnswered",
           ![f].permissionsRes = IF permissionsFail THEN NetworkFailure
                                 ELSE permissionsRoute(session),
           ![f].orgRes = IF orgFail THEN NetworkFailure
                         ELSE organizationRoute(session)]
    /\ UNCHANGED <<sessionData, rendered, session, reply>>
    /\ UNCHANGED <<registrationVars, sweeperVars, limiterVars, mailVars, hookVars>>

\* fetchSession f resumes after Promise.allSettled and sets the session.
ReceiveExtras(f) ==
    /\ fetches[f].at = "extrasAnswered"
    /\ LET state == authenticatedState(fetches[f].me, fetches[f].permissionsRes,
                                       fetches[f].orgRes)
       IN  /\ sessionData' = state
           /\ fetches' = [fetches EXCEPT ![f].at = "done", ![f].produced = state]
    /\ UNCHANGED <<rendered, session, reply>>
    /\ UNCHANGED <<registrationVars, sweeperVars, limiterVars, mailVars, hookVars>>

\* The user signs in or out elsewhere, or the Kinde lookup starts or stops
\* throwing.
ChangeSession(s) ==
    /\ fetches # <<>>
    /\ s # session
    /\ session' = s
    /\ UNCHANGED <<sessionData, fetches, rendered, reply>>
    /\ UNCHANGED <<registrationVars, sweeperVars, limiterVars, mailVars, hookVars>>

NextProvider ==
    \/ InitialFetch
    \/ IntervalRefresh
    \/ StorageChange
    \/ VisibilityChange
    \/ Refresh
    \/ ClearError
    \/ \E f \in 1..Len(fetches), outcome \in {"route", "crash", "network"} :
           AnswerMe(f, outcome)
    \/ \E f \in 1..Len(fetches) : ReceiveMe(f)
    \/ \E f \in 1..Len(fetches), permissionsFail \in BOOLEAN, orgFail \in BOOLEAN :
           AnswerExtras(f, permissionsFail, orgFail)
    \/ \E f \in 1..Len(fetches) : ReceiveExtras(f)
    \/ \E s \in ProviderSessions : ChangeSession(s)

SpecProvider == InitProvider /\ [][NextProvider]_vars

\* ------------------------------------------------------------------ C28
\* Fetch f completes in this step.
completes(f) == fetches[f].at # "done" /\ fetches'[f].at = "done"

\* C28: from the default initial session, isAuthenticated implies a non-null
\* user in every state; and right after a fetchSession completes isLoading
\* is false and the state is authenticated (user set, error null),
\* unauthenticated after a 401 (user null, no permissions, no organization,
\* error null) or failed (user null, not authenticated, no permissions, no
\* organization, error set).
C28_SessionStateShapes ==
    [][/\ sessionData'.isAuthenticated => sessionData'.user # "null"
       /\ \A f \in 1..Len(fetches) :
              completes(f) =>
                  /\ ~sessionData'.isLoading
                  /\ \/ /\ sessionData'.isAuthenticated
                        /\ sessionData'.user # "null"
                        /\ sessionData'.error = "null"
                        /\ fetches[f].me.status = 200
                     \/ /\ ~sessionData'.isAuthenticated
                        /\ sessionData'.user = "null"
                        /\ sessionData'.permissions = {}
                        /\ sessionData'.organization = NoOrganization
                        /\ sessionData'.error = "null"
                        /\ fetches[f].me.status = 401
                     \/ /\ ~sessionData'.isAuthenticated
                        /\ sessionData'.user = "null"
                        /\ sessionData'.permissions = {}
                        /\ sessionData'.organization = NoOrganization
                        /\ sessionData'.error # "null"
                        /\ fetches[f].me.status \notin {200, 401}]_vars

\* A refresh of an authenticated session is in flight: the state is loading
\* and still carries the user.
C28_Witness ==
    /\ Len(fetches) = 2
    /\ fetches[1].at = "done"
    /\ fetches[1].produced.isAuthenticated
    /\ fetches[2].at = "me"
    /\ sessionData.isLoading
    /\ sessionData.isAuthenticated
    /\ sessionData.user = "kp_1"

\* ------------------------------------------------------------------ C29
\* C29: when fetchSession calls overlap, the session state after all of them
\* have completed is the one produced by the most recently started fetch.
C29_LatestFetchWins ==
    [][(/\ \E f \in 1..Len(fetches) : completes(f)
        /\ \A f \in 1..Len(fetches) : fetches'[f].at = "done")
       => sessionData' = fetches'[Len(fetches')].produced]_vars
====
